---- MODULE Spec2Model ----
(***************************************************************************)
(* Offline-first meal cache and its synchronisation with the server:      *)
(* src/services/offline.ts (OfflineMealsService, SyncMetaService,         *)
(* CacheCleanupService, SyncScheduler).                                   *)
(*                                                                         *)
(* The IndexedDB tables are the variables meals and syncStatus /          *)
(* lastSyncTime.  Every invocation of SyncScheduler.triggerSync is a task  *)
(* whose program counter names the await it is suspended at; one action   *)
(* is the code that runs when that await resolves, up to the next await.  *)
(* A Dexie call outside a transaction is one atomic step, and the body of *)
(* db.transaction('rw', db.meals, ...) is one atomic step.                *)
(*                                                                         *)
(* The user-visible fields of a record (name, portion, calories, ...) are *)
(* carried together as the single field val; recordDate is a day number.  *)
(*                                                                         *)
(* The token refresh of src/services/api.ts (ApiClient.request,           *)
(* ApiClient.refreshAccessToken) is modelled by the variables apiVars and *)
(* the specification SpecApi.                                             *)
(***************************************************************************)
EXTENDS Integers, Sequences, FiniteSets, TLC

(* ------------------------------ bounds -------------------------------- *)

\* local auto-increment ids handed out by the meals table
MaxMeals == 2
\* the clock (new Date()) takes the values 1..MaxTime
MaxTime == 2
\* concurrent invocations of triggerSync
NumTasks == 2
\* the day new Date() falls on
Today == 40
\* calls of the application, window events, clock ticks and local storage
\* failures in one run
MaxEvents == 3
\* calls of ApiClient.request (api.ts)
NumRequests == 3

(* --------------------------- program constants ------------------------ *)

RetentionDays == 30

Ids == 1..MaxMeals
Tasks == 1..NumTasks
\* the contents the user-visible fields take
Vals == {"a", "b"}
Times == 1..MaxTime

\* cutoffDate of cleanupExpired: today minus 30 days, as a date
CutoffDate == Today - RetentionDays

\* the record dates the model enters: the day before the cutoff and the cutoff
Dates == {CutoffDate - 1, CutoffDate}

\* crypto.randomUUID(): the n-th value generated, distinct from every other
generateClientId(n) == <<"uuid", n>>

\* the client_id of the record another device created on the server
ForeignClientId == <<"other-device", 1>>

NoClientId == <<>>

Requests == 1..NumRequests

VARIABLES
    meals,          \* db.meals: local id -> CachedMeal
    nextId,         \* the ++id key generator of db.meals
    nextUuid,       \* how many UUIDs crypto.randomUUID() has produced, plus one
    syncStatus,     \* db.syncMeta 'syncStatus': "" (no row), idle, syncing, error
    lastSyncTime,   \* db.syncMeta 'lastSyncTime': 0 (no row) or a time
    isOnline,       \* SyncScheduler.isOnline
    syncInterval,   \* SyncScheduler.syncInterval: 0 (null) or a timer handle
    timers,         \* the interval timers that are set in the window
    now,            \* the clock
    serverStore,    \* the server's meals of this user
    pc,             \* per task: the await triggerSync is suspended at
    currentStatus,  \* per task: const currentStatus ("": not read yet)
    pendingMeals,   \* per task: const pendingMeals
    lastSyncArg,    \* per task: const lastSyncTime (0: null)
    response,       \* per task: const response, or the response in flight
    idx,            \* per task: position of the for loop over pendingMeals
    found,          \* per task: const meal of markSynced (its id, 0: undefined)
    toDelete,       \* per task: idsToDelete of cleanupExpired
    err,            \* per task: what was thrown inside the try block
    svcArg,         \* per task: the serverId parameter of a direct call of markSynced
    lostAcks,       \* client_ids the server accepted in a request whose response was lost
    flagged,        \* clientIds a received response listed in conflicts, not edited since
    reconnected,    \* local ids that were PENDING when the observed 'online' event fired
    events,         \* how many calls, window events and clock ticks there have been
    apiClient,      \* ApiClient (api.ts): isRefreshing and refreshPromise
    requests,       \* per call of ApiClient.request made: where it is, and its locals
    refreshCalls,   \* per call of refreshAccessToken made: pending, or what it returned
    tokens,         \* localStorage holds the access token and the refresh token
    logoutEvents    \* how many 'auth:logout' events have been dispatched

dbVars == <<meals, nextId, nextUuid>>
metaVars == <<syncStatus, lastSyncTime>>
schedVars == <<isOnline, syncInterval, timers>>
taskVars == <<pc, currentStatus, pendingMeals, lastSyncArg, response, idx, found, toDelete, err>>
apiVars == <<apiClient, requests, refreshCalls, tokens, logoutEvents>>
offlineVars == <<meals, nextId, nextUuid, syncStatus, lastSyncTime, isOnline, syncInterval,
                 timers, now, serverStore, pc, currentStatus, pendingMeals, lastSyncArg,
                 response, idx, found, toDelete, err, svcArg, lostAcks, flagged, reconnected,
                 events>>
vars == <<offlineVars, apiVars>>

(* ----------------------------- the store ------------------------------ *)

CachedMeal(id, clientId, serverId, val, recordDate, status, updatedAt) ==
    [id |-> id, clientId |-> clientId, serverId |-> serverId, val |-> val,
     recordDate |-> recordDate, syncStatus |-> status, updatedAt |-> updatedAt]

Min(S) == CHOOSE x \in S : \A y \in S : x <= y

\* a set of local ids as the ascending sequence Dexie's toArray() returns
RECURSIVE IdsAscending(_)
IdsAscending(S) ==
    IF S = {} THEN <<>> ELSE <<Min(S)>> \o IdsAscending(S \ {Min(S)})

\* OfflineMealsService.add: db.meals.add of the new record
add(store, id, meal, clientId, t) ==
    store @@ (id :> CachedMeal(id, clientId, meal.serverId, meal.val,
                               meal.recordDate, "PENDING", t))

\* the properties a changes object carries, spread over the record
Spread(rec, changes) ==
    [rec EXCEPT
        !.val = IF changes.val = "" THEN @ ELSE changes.val,
        !.recordDate = IF changes.recordDate = 0 THEN @ ELSE changes.recordDate,
        !.clientId = IF changes.clientId = NoClientId THEN @ ELSE changes.clientId,
        !.serverId = IF changes.serverId = 0 THEN @ ELSE changes.serverId,
        !.syncStatus = IF changes.syncStatus = "" THEN @ ELSE changes.syncStatus,
        !.updatedAt = IF changes.updatedAt = 0 THEN @ ELSE changes.updatedAt]

\* OfflineMealsService.update: {...changes, updatedAt: new Date(), syncStatus: 'PENDING'}
update(store, id, changes, t) ==
    IF id \notin DOMAIN store THEN store
    ELSE [store EXCEPT ![id] =
            [Spread(@, changes) EXCEPT !.updatedAt = t, !.syncStatus = "PENDING"]]

\* a delete that refuses to remove a record that is not yet confirmed
deleteSyncedOnly(store, id) ==
    IF id \in DOMAIN store /\ store[id].syncStatus = "PENDING"
    THEN store
    ELSE [i \in DOMAIN store \ {id} |-> store[i]]

\* OfflineMealsService.delete
delete(store, id) == [i \in DOMAIN store \ {id} |-> store[i]]

\* db.meals.where('clientId').equals(clientId).first(): 0 when there is none
FirstByClientId(store, clientId) ==
    LET hits == {i \in DOMAIN store : store[i].clientId = clientId}
    IN IF hits = {} THEN 0 ELSE Min(hits)

\* a range query that excludes both bounds
getByDateRangeExclusive(store, startDate, endDate) ==
    {store[i] : i \in {j \in DOMAIN store :
                          /\ startDate < store[j].recordDate
                          /\ store[j].recordDate < endDate}}

\* OfflineMealsService.getByDateRange: where('recordDate').between(startDate, endDate,
\* true, true); the records returned, as a set
getByDateRange(store, startDate, endDate) ==
    {store[i] : i \in {j \in DOMAIN store :
                          /\ startDate <= store[j].recordDate
                          /\ store[j].recordDate <= endDate}}

\* a getPending that returns the first PENDING record only
getPendingFirst(store) ==
    LET ids == IdsAscending({i \in DOMAIN store : store[i].syncStatus = "PENDING"})
    IN [k \in 1..(IF Len(ids) = 0 THEN 0 ELSE 1) |-> store[ids[k]]]

\* OfflineMealsService.getPending
getPending(store) ==
    LET ids == IdsAscending({i \in DOMAIN store : store[i].syncStatus = "PENDING"})
    IN [k \in 1..Len(ids) |-> store[ids[k]]]

\* a markSynced that sets the status and leaves serverId as it is
markSyncedStatusOnly(store, id, serverId, t) ==
    IF id \notin DOMAIN store THEN store
    ELSE [store EXCEPT ![id] = [@ EXCEPT !.syncStatus = "SYNCED", !.updatedAt = t]]

\* the db.meals.update of OfflineMealsService.markSynced
markSyncedUpdate(store, id, serverId, t) ==
    IF id \notin DOMAIN store THEN store
    ELSE [store EXCEPT ![id] =
            [@ EXCEPT !.serverId = serverId, !.syncStatus = "SYNCED", !.updatedAt = t]]

\* a mergeFromServer that inserts an unknown record as PENDING
MergeOneInsertsPending(db, serverMeal, t) ==
    LET localId == FirstByClientId(db.meals, serverMeal.client_id)
    IN IF localId # 0
       THEN [meals |-> [db.meals EXCEPT ![localId] =
                          [@ EXCEPT !.serverId = serverMeal.id,
                                    !.val = serverMeal.val,
                                    !.recordDate = serverMeal.record_date,
                                    !.syncStatus = "SYNCED",
                                    !.updatedAt = t]],
             nextId |-> db.nextId]
       ELSE [meals |-> db.meals @@
                          (db.nextId :> CachedMeal(db.nextId, serverMeal.client_id,
                                                   serverMeal.id, serverMeal.val,
                                                   serverMeal.record_date, "PENDING", t)),
             nextId |-> db.nextId + 1]

\* a mergeFromServer that marks an existing record and keeps its local fields
MergeOneKeepsFields(db, serverMeal, t) ==
    LET localId == FirstByClientId(db.meals, serverMeal.client_id)
    IN IF localId # 0
       THEN [meals |-> [db.meals EXCEPT ![localId] =
                          [@ EXCEPT !.serverId = serverMeal.id,
                                    !.syncStatus = "SYNCED",
                                    !.updatedAt = t]],
             nextId |-> db.nextId]
       ELSE [meals |-> db.meals @@
                          (db.nextId :> CachedMeal(db.nextId, serverMeal.client_id,
                                                   serverMeal.id, serverMeal.val,
                                                   serverMeal.record_date, "SYNCED", t)),
             nextId |-> db.nextId + 1]

\* a mergeFromServer whose update of an existing record leaves its syncStatus alone
MergeOneKeepsStatus(db, serverMeal, t) ==
    LET localId == FirstByClientId(db.meals, serverMeal.client_id)
    IN IF localId # 0
       THEN [meals |-> [db.meals EXCEPT ![localId] =
                          [@ EXCEPT !.serverId = serverMeal.id,
                                    !.val = serverMeal.val,
                                    !.recordDate = serverMeal.record_date,
                                    !.updatedAt = t]],
             nextId |-> db.nextId]
       ELSE [meals |-> db.meals @@
                          (db.nextId :> CachedMeal(db.nextId, serverMeal.client_id,
                                                   serverMeal.id, serverMeal.val,
                                                   serverMeal.record_date, "SYNCED", t)),
             nextId |-> db.nextId + 1]

\* a mergeFromServer that inserts every entry without looking for a local record
MergeOneAlwaysInserts(db, serverMeal, t) ==
    [meals |-> db.meals @@
                  (db.nextId :> CachedMeal(db.nextId, serverMeal.client_id,
                                           serverMeal.id, serverMeal.val,
                                           serverMeal.record_date, "SYNCED", t)),
     nextId |-> db.nextId + 1]

\* one iteration of the loop of OfflineMealsService.mergeFromServer
MergeOne(db, serverMeal, t) ==
    LET localId == FirstByClientId(db.meals, serverMeal.client_id)
    IN IF localId # 0
       THEN [meals |-> [db.meals EXCEPT ![localId] =
                          [@ EXCEPT !.serverId = serverMeal.id,
                                    !.val = serverMeal.val,
                                    !.recordDate = serverMeal.record_date,
                                    !.syncStatus = "SYNCED",
                                    !.updatedAt = t]],
             nextId |-> db.nextId]
       ELSE [meals |-> db.meals @@
                          (db.nextId :> CachedMeal(db.nextId, serverMeal.client_id,
                                                   serverMeal.id, serverMeal.val,
                                                   serverMeal.record_date, "SYNCED", t)),
             nextId |-> db.nextId + 1]

\* OfflineMealsService.mergeFromServer: the transaction over the whole list
RECURSIVE mergeFromServer(_, _, _)
mergeFromServer(db, serverMeals, t) ==
    IF serverMeals = <<>> THEN db
    ELSE mergeFromServer(MergeOne(db, Head(serverMeals), t), Tail(serverMeals), t)

\* the selection query of CacheCleanupService.cleanupExpired
ExpiredIds(store) ==
    {i \in DOMAIN store : store[i].syncStatus = "SYNCED"
                          /\ store[i].recordDate < CutoffDate}

\* db.meals.bulkDelete
bulkDelete(store, ids) == [i \in DOMAIN store \ ids |-> store[i]]

\* SyncMetaService.getSyncStatus: the row's value, 'idle' when there is no row
getSyncStatus == IF syncStatus = "" THEN "idle" ELSE syncStatus

(* ------------------------------ the wire ------------------------------ *)

\* a wire mapping that generates the client_id when the record is pushed
ToWireFreshClientId(m) ==
    [client_id |-> generateClientId(nextUuid + Cardinality(serverStore)),
     val |-> m.val, record_date |-> m.recordDate]

\* a batch that carries the first pending meal only
mealsToSyncFirstOnly(pending) ==
    [k \in 1..(IF Len(pending) = 0 THEN 0 ELSE 1) |->
        [client_id |-> pending[k].clientId, val |-> pending[k].val,
         record_date |-> pending[k].recordDate]]

\* mealsToSync: one wire record per pending meal
ToWire(m) == [client_id |-> m.clientId, val |-> m.val, record_date |-> m.recordDate]

mealsToSync(pending) == [k \in 1..Len(pending) |-> ToWire(pending[k])]

NoResponse == [conflicts |-> {}, server_meals |-> <<>>]

(* ----------------------------- the server ----------------------------- *)
(* POST /meals/sync as section 4.4 of the specification describes it: the  *)
(* server keys the records of a user on client_id, flags some of the       *)
(* pushed records as conflicts, stores the others and returns them with   *)
(* their ids, together with records the client should adopt.              *)

ServerUpsert(store, w) ==
    IF \E s \in store : s.client_id = w.client_id
    THEN {IF s.client_id = w.client_id
          THEN [s EXCEPT !.val = w.val, !.record_date = w.record_date]
          ELSE s : s \in store}
    ELSE store \cup {[id |-> Cardinality(store) + 1, client_id |-> w.client_id,
                      val |-> w.val, record_date |-> w.record_date]}

RECURSIVE ServerAccept(_, _, _)
ServerAccept(store, wire, conflicts) ==
    IF wire = <<>> THEN store
    ELSE ServerAccept(IF Head(wire).client_id \in conflicts THEN store
                      ELSE ServerUpsert(store, Head(wire)),
                      Tail(wire), conflicts)

RECURSIVE ServerMealsById(_)
ServerMealsById(S) ==
    IF S = {} THEN <<>>
    ELSE LET s == CHOOSE x \in S : \A y \in S : x.id <= y.id
         IN <<s>> \o ServerMealsById(S \ {s})

WireClientIds(wire) == {wire[k].client_id : k \in 1..Len(wire)}

(* ------------------------------- Init --------------------------------- *)

Init ==
    /\ meals = <<>>
    /\ nextId = 1
    /\ nextUuid = 1
    /\ syncStatus = ""
    /\ lastSyncTime = 0
    /\ isOnline \in BOOLEAN
    /\ syncInterval = 0
    /\ timers = {}
    /\ now = 1
    /\ serverStore = {}
    /\ pc = [t \in Tasks |-> "idle"]
    /\ currentStatus = [t \in Tasks |-> ""]
    /\ pendingMeals = [t \in Tasks |-> <<>>]
    /\ lastSyncArg = [t \in Tasks |-> 0]
    /\ response = [t \in Tasks |-> NoResponse]
    /\ idx = [t \in Tasks |-> 0]
    /\ found = [t \in Tasks |-> 0]
    /\ toDelete = [t \in Tasks |-> {}]
    /\ err = [t \in Tasks |-> "none"]
    /\ svcArg = [t \in Tasks |-> 0]
    /\ lostAcks = {}
    /\ flagged = {}
    /\ reconnected = {}
    /\ events = 0
    /\ apiClient = [isRefreshing |-> FALSE, refreshPromise |-> 0]
    /\ requests = <<>>
    /\ refreshCalls = <<>>
    /\ tokens = FALSE
    /\ logoutEvents = 0

(* --------------------------- local operations ------------------------- *)

NoChanges ==
    [val |-> "", recordDate |-> 0, clientId |-> NoClientId, serverId |-> 0,
     syncStatus |-> "", updatedAt |-> 0]

\* changes objects that carry user-visible fields only: editMeal(localId, fields)
FieldChanges ==
    {[NoChanges EXCEPT !.val = v] : v \in Vals}
        \cup {[NoChanges EXCEPT !.recordDate = d] : d \in Dates}

\* the meals add() is called with
NewMeals == [val : Vals, recordDate : Dates, serverId : {0}]

\* one more call, window event or clock tick
Event == events < MaxEvents /\ events' = events + 1

\* new Date() advances
Tick ==
    /\ Event
    /\ now < MaxTime
    /\ now' = now + 1
    /\ UNCHANGED <<dbVars, metaVars, schedVars, serverStore, taskVars, lostAcks>>
    /\ UNCHANGED <<svcArg, flagged, reconnected, apiVars>>

\* OfflineMealsService.add(meal)
Add(meal) ==
    /\ Event
    /\ nextId <= MaxMeals
    /\ meals' = add(meals, nextId, meal, generateClientId(nextUuid), now)
    /\ nextId' = nextId + 1
    /\ nextUuid' = nextUuid + 1
    /\ UNCHANGED <<metaVars, schedVars, now, serverStore, taskVars, lostAcks>>
    /\ UNCHANGED <<svcArg, flagged, reconnected, apiVars>>

\* OfflineMealsService.update(id, changes)
Update(id, changes) ==
    /\ Event
    /\ id \in DOMAIN meals
    /\ meals' = update(meals, id, changes, now)
    /\ UNCHANGED <<nextId, nextUuid, metaVars, schedVars, now, serverStore,
                   taskVars, lostAcks>>
    /\ flagged' = flagged \ {meals[id].clientId}
    /\ reconnected' = reconnected \ {id}
    /\ UNCHANGED <<svcArg, apiVars>>

\* OfflineMealsService.delete(id)
Delete(id) ==
    /\ Event
    /\ id \in DOMAIN meals
    /\ meals' = delete(meals, id)
    /\ UNCHANGED <<nextId, nextUuid, metaVars, schedVars, now, serverStore,
                   taskVars, lostAcks>>
    /\ UNCHANGED <<svcArg, flagged, reconnected, apiVars>>

(* ---------------------------- the scheduler --------------------------- *)

\* the task slots no invocation of triggerSync is running in
IdleTasks == {t \in Tasks : pc[t] \in {"idle", "skipped", "rejected"}}

\* a triggerSync without the isOnline check
InvokeAlways(t, online) ==
    /\ pc' = [pc EXCEPT ![t] = "getStatus"]
    /\ UNCHANGED <<currentStatus, pendingMeals, lastSyncArg, response, idx, found,
                   toDelete, err>>

\* triggerSync() up to its first await: a no-op when offline, else getSyncStatus is awaited
Invoke(t, online) ==
    /\ pc' = IF online THEN [pc EXCEPT ![t] = "getStatus"] ELSE pc
    /\ UNCHANGED <<currentStatus, pendingMeals, lastSyncArg, response, idx, found,
                   toDelete, err>>

\* a direct call of syncScheduler.triggerSync()
DirectTrigger ==
    /\ Event
    /\ IdleTasks # {}
    /\ Invoke(Min(IdleTasks), isOnline)
    /\ UNCHANGED <<dbVars, metaVars, schedVars, now, serverStore, lostAcks>>
    /\ UNCHANGED <<svcArg, flagged, reconnected, apiVars>>

\* the 'online' listener of the constructor
OnlineEvent ==
    /\ Event
    /\ IdleTasks # {}
    /\ isOnline' = TRUE
    /\ Invoke(Min(IdleTasks), TRUE)
    /\ UNCHANGED <<dbVars, metaVars, syncInterval, timers, now, serverStore, lostAcks>>
    /\ UNCHANGED <<svcArg, flagged, reconnected, apiVars>>

\* the 'offline' listener of the constructor
OfflineEvent ==
    /\ Event
    /\ isOnline' = FALSE
    /\ UNCHANGED <<dbVars, metaVars, syncInterval, timers, now, serverStore,
                   taskVars, lostAcks>>
    /\ UNCHANGED <<svcArg, flagged, reconnected, apiVars>>

\* window.setInterval hands out a handle no live timer has
NewTimer(live) == Min({h \in 1..(Cardinality(live) + 1) : h \notin live})

\* a start() that sets a new interval without clearing the one it holds
StartKeepsOldTimer ==
    /\ Event
    /\ IdleTasks # {}
    /\ syncInterval' = NewTimer(timers)
    /\ timers' = timers \cup {NewTimer(timers)}
    /\ Invoke(Min(IdleTasks), isOnline)
    /\ UNCHANGED <<dbVars, metaVars, isOnline, now, serverStore, lostAcks>>
    /\ UNCHANGED <<svcArg, flagged, reconnected, apiVars>>

\* SyncScheduler.start
Start ==
    /\ Event
    /\ IdleTasks # {}
    /\ LET live == IF syncInterval # 0 THEN timers \ {syncInterval} ELSE timers
       IN /\ syncInterval' = NewTimer(live)
          /\ timers' = live \cup {NewTimer(live)}
    /\ Invoke(Min(IdleTasks), isOnline)
    /\ UNCHANGED <<dbVars, metaVars, isOnline, now, serverStore, lostAcks>>
    /\ UNCHANGED <<svcArg, flagged, reconnected, apiVars>>

\* SyncScheduler.stop
Stop ==
    /\ Event
    /\ syncInterval # 0
    /\ timers' = timers \ {syncInterval}
    /\ syncInterval' = 0
    /\ UNCHANGED <<dbVars, metaVars, isOnline, now, serverStore, taskVars, lostAcks>>
    /\ UNCHANGED <<svcArg, flagged, reconnected, apiVars>>

\* a timer set by start() fires
TimerTick ==
    /\ Event
    /\ timers # {}
    /\ IdleTasks # {}
    /\ Invoke(Min(IdleTasks), isOnline)
    /\ UNCHANGED <<dbVars, metaVars, schedVars, now, serverStore, lostAcks>>
    /\ UNCHANGED <<svcArg, flagged, reconnected, apiVars>>

(* ------------------------ triggerSync, step by step ------------------- *)

Goto(t, label) == pc' = [pc EXCEPT ![t] = label]

\* triggerSync returns: the invocation and its locals are gone
Return(t) ==
    /\ pc' = [pc EXCEPT ![t] = "idle"]
    /\ currentStatus' = [currentStatus EXCEPT ![t] = ""]
    /\ pendingMeals' = [pendingMeals EXCEPT ![t] = <<>>]
    /\ lastSyncArg' = [lastSyncArg EXCEPT ![t] = 0]
    /\ response' = [response EXCEPT ![t] = NoResponse]
    /\ idx' = [idx EXCEPT ![t] = 0]
    /\ found' = [found EXCEPT ![t] = 0]
    /\ toDelete' = [toDelete EXCEPT ![t] = {}]
    /\ err' = [err EXCEPT ![t] = "none"]

\* an await outside the try block, or inside the catch block, rejects: the promise
\* of triggerSync rejects (no caller handles it) and the invocation is gone
Reject(t) ==
    /\ pc' = [pc EXCEPT ![t] = "rejected"]
    /\ currentStatus' = [currentStatus EXCEPT ![t] = ""]
    /\ pendingMeals' = [pendingMeals EXCEPT ![t] = <<>>]
    /\ lastSyncArg' = [lastSyncArg EXCEPT ![t] = 0]
    /\ response' = [response EXCEPT ![t] = NoResponse]
    /\ idx' = [idx EXCEPT ![t] = 0]
    /\ found' = [found EXCEPT ![t] = 0]
    /\ toDelete' = [toDelete EXCEPT ![t] = {}]
    /\ err' = [err EXCEPT ![t] = "none"]

\* an await inside the try block rejects: control goes to the catch block, which
\* awaits setSyncStatus('error')
Throw(t, error) ==
    /\ pc' = [pc EXCEPT ![t] = "catch"]
    /\ err' = [err EXCEPT ![t] = error]

\* response.server_meals.find(sm => sm.client_id === clientId): its position, 0 if none
FindServerMeal(resp, clientId) ==
    LET hits == {k \in 1..Len(resp.server_meals) :
                    resp.server_meals[k].client_id = clientId}
    IN IF hits = {} THEN 0 ELSE Min(hits)

\* the first iteration from k on that calls markSynced; Len + 1 when the loop is over
NextMark(pending, resp, k) ==
    LET calls == {j \in k..Len(pending) :
                    /\ pending[j].clientId \notin resp.conflicts
                    /\ FindServerMeal(resp, pending[j].clientId) # 0}
    IN IF calls = {} THEN Len(pending) + 1 ELSE Min(calls)

\* the for loop runs on from iteration k to its next await, or past its end to the
\* await that follows: mergeFromServer if server_meals is not empty, else setLastSyncTime
LoopFrom(t, resp, k) ==
    LET j == NextMark(pendingMeals[t], resp, k)
    IN /\ idx' = [idx EXCEPT ![t] = j]
       /\ IF j <= Len(pendingMeals[t]) THEN Goto(t, "markRead")
          ELSE IF Len(resp.server_meals) > 0 THEN Goto(t, "merge")
          ELSE Goto(t, "setLast")

\* line 427: the read of db.syncMeta rejects (local storage failure); the await is
\* not inside the try block
GetStatusFail(t) ==
    /\ Event
    /\ pc[t] = "getStatus"
    /\ Reject(t)
    /\ UNCHANGED <<dbVars, metaVars, schedVars, now, serverStore, lostAcks>>
    /\ UNCHANGED <<svcArg, flagged, reconnected, apiVars>>

\* the awaits of the try block that are operations on the local database
StorageAwaits == {"setSyncing", "getPending", "setIdleEmpty", "getLast", "markRead",
                  "markWrite", "merge", "setLast", "setIdle", "cleanupQuery",
                  "cleanupDelete"}

\* lines 434-523: an operation on the local database rejects (local storage
\* failure) without having written anything; a transaction is rolled back
StorageFail(t) ==
    /\ Event
    /\ pc[t] \in StorageAwaits
    /\ Throw(t, "storage")
    /\ UNCHANGED <<dbVars, metaVars, schedVars, now, serverStore, pendingMeals,
                   lastSyncArg, response, idx, found, toDelete, lostAcks, currentStatus>>
    /\ UNCHANGED <<svcArg, flagged, reconnected, apiVars>>

\* a triggerSync without the 'syncing' check
GetStatusNoGuard(t) ==
    /\ pc[t] = "getStatus"
    /\ Goto(t, "setSyncing")
    /\ currentStatus' = [currentStatus EXCEPT ![t] = getSyncStatus]
    /\ UNCHANGED <<dbVars, metaVars, schedVars, now, serverStore, pendingMeals,
                   lastSyncArg, response, idx, found, toDelete, err, lostAcks, events>>
    /\ UNCHANGED <<svcArg, flagged, reconnected, apiVars>>

\* a guard that lets a trigger through only when the status is 'idle'
GetStatusOnlyIdle(t) ==
    /\ pc[t] = "getStatus"
    /\ IF getSyncStatus # "idle"
       THEN Goto(t, "idle") /\ currentStatus' = currentStatus
       ELSE Goto(t, "setSyncing")
            /\ currentStatus' = [currentStatus EXCEPT ![t] = getSyncStatus]
    /\ UNCHANGED <<dbVars, metaVars, schedVars, now, serverStore, pendingMeals,
                   lastSyncArg, response, idx, found, toDelete, err, lostAcks, events>>
    /\ UNCHANGED <<svcArg, flagged, reconnected, apiVars>>

\* lines 427-431: getSyncStatus resolves; if a cycle is 'syncing' this call returns
\* at line 430 (pc "skipped": the invocation is gone, it ended without a cycle)
GetStatus(t) ==
    /\ pc[t] = "getStatus"
    /\ IF getSyncStatus = "syncing"
       THEN Goto(t, "skipped") /\ currentStatus' = currentStatus
       ELSE Goto(t, "setSyncing")
            /\ currentStatus' = [currentStatus EXCEPT ![t] = getSyncStatus]
    /\ UNCHANGED <<dbVars, metaVars, schedVars, now, serverStore, pendingMeals,
                   lastSyncArg, response, idx, found, toDelete, err, lostAcks, events>>
    /\ UNCHANGED <<svcArg, flagged, reconnected, apiVars>>

\* line 434: setSyncStatus('syncing')
SetSyncing(t) ==
    /\ pc[t] = "setSyncing"
    /\ syncStatus' = "syncing"
    /\ Goto(t, "getPending")
    /\ UNCHANGED <<dbVars, lastSyncTime, schedVars, now, serverStore, pendingMeals,
                   lastSyncArg, response, idx, found, toDelete, err, lostAcks, events, currentStatus>>
    /\ UNCHANGED <<svcArg, flagged, reconnected, apiVars>>

\* a cycle that goes on to the sync request also when nothing is pending
GetPendingAlwaysPushes(t) ==
    /\ pc[t] = "getPending"
    /\ pendingMeals' = [pendingMeals EXCEPT ![t] = getPending(meals)]
    /\ Goto(t, "getLast")
    /\ UNCHANGED <<dbVars, metaVars, schedVars, now, serverStore, lastSyncArg,
                   response, idx, found, toDelete, err, lostAcks, events, currentStatus>>
    /\ UNCHANGED <<svcArg, flagged, reconnected, apiVars>>

\* lines 437-468: getPending resolves; nothing pending: setSyncStatus('idle') is
\* awaited, else the wire records are built and import('./api') is awaited
GetPending(t) ==
    /\ pc[t] = "getPending"
    /\ pendingMeals' = [pendingMeals EXCEPT ![t] = getPending(meals)]
    /\ IF Len(getPending(meals)) = 0 THEN Goto(t, "setIdleEmpty") ELSE Goto(t, "getLast")
    /\ UNCHANGED <<dbVars, metaVars, schedVars, now, serverStore, lastSyncArg,
                   response, idx, found, toDelete, err, lostAcks, events, currentStatus>>
    /\ UNCHANGED <<svcArg, flagged, reconnected, apiVars>>

\* an empty cycle that also records itself as the last sync
SetIdleEmptyAdvancesSyncTime(t) ==
    /\ pc[t] = "setIdleEmpty"
    /\ syncStatus' = "idle"
    /\ lastSyncTime' = now
    /\ Return(t)
    /\ UNCHANGED <<dbVars, schedVars, now, serverStore, lostAcks, events>>
    /\ UNCHANGED <<svcArg, flagged, reconnected, apiVars>>

\* lines 441-442: setSyncStatus('idle'); return
SetIdleEmpty(t) ==
    /\ pc[t] = "setIdleEmpty"
    /\ syncStatus' = "idle"
    /\ Return(t)
    /\ UNCHANGED <<dbVars, lastSyncTime, schedVars, now, serverStore, lostAcks, events>>
    /\ UNCHANGED <<svcArg, flagged, reconnected, apiVars>>

\* line 468: import('./api') rejects
ImportFail(t) ==
    /\ pc[t] = "getLast"
    /\ Throw(t, "import")
    /\ UNCHANGED <<dbVars, metaVars, schedVars, now, serverStore, pendingMeals,
                   lastSyncArg, response, idx, found, toDelete, lostAcks, events, currentStatus>>
    /\ UNCHANGED <<svcArg, flagged, reconnected, apiVars>>

\* lines 468-471: the module is imported, getLastSyncTime resolves and
\* MealsAPI.sync(mealsToSync, lastSyncTime) is called
GetLastSyncTime(t) ==
    /\ pc[t] = "getLast"
    /\ lastSyncArg' = [lastSyncArg EXCEPT ![t] = lastSyncTime]
    /\ Goto(t, "callSync")
    /\ UNCHANGED <<dbVars, metaVars, schedVars, now, serverStore, pendingMeals,
                   response, idx, found, toDelete, err, lostAcks, events, currentStatus>>
    /\ UNCHANGED <<svcArg, flagged, reconnected, apiVars>>

\* line 471: the request does not reach the server; MealsAPI.sync rejects
SyncFail(t) ==
    /\ pc[t] = "callSync"
    /\ Throw(t, "network")
    /\ UNCHANGED <<dbVars, metaVars, schedVars, now, serverStore, pendingMeals,
                   lastSyncArg, response, idx, found, toDelete, lostAcks, events, currentStatus>>
    /\ UNCHANGED <<svcArg, flagged, reconnected, apiVars>>

\* POST /meals/sync on the server: it flags the records of conflicts, stores the
\* others, and answers with them and with any of its other records (extra)
ServerSync(t, conflicts, extra) ==
    /\ pc[t] = "callSync"
    /\ LET wire == mealsToSync(pendingMeals[t])
           accepted == WireClientIds(wire) \ conflicts
           store == ServerAccept(serverStore, wire, conflicts)
       IN /\ conflicts \subseteq WireClientIds(wire)
          /\ extra \subseteq {s \in store : s.client_id \notin accepted}
          /\ serverStore' = store
          /\ response' = [response EXCEPT ![t] =
                [conflicts |-> conflicts,
                 server_meals |->
                    ServerMealsById({s \in store : s.client_id \in accepted} \cup extra)]]
    /\ Goto(t, "awaitResponse")
    /\ UNCHANGED <<dbVars, metaVars, schedVars, now, pendingMeals, lastSyncArg,
                   idx, found, toDelete, err, lostAcks, events, currentStatus>>
    /\ UNCHANGED <<svcArg, flagged, reconnected, apiVars>>

\* line 471: the server has answered but the response does not arrive (or arrives
\* as an HTTP error); MealsAPI.sync rejects
SyncLost(t) ==
    /\ pc[t] = "awaitResponse"
    /\ Throw(t, "network")
    /\ response' = [response EXCEPT ![t] = NoResponse]
    /\ lostAcks' = lostAcks \cup
            (WireClientIds(mealsToSync(pendingMeals[t])) \ response[t].conflicts)
    /\ UNCHANGED <<dbVars, metaVars, schedVars, now, serverStore, pendingMeals,
                   lastSyncArg, idx, found, toDelete, events, currentStatus>>
    /\ UNCHANGED <<svcArg, flagged, reconnected, apiVars>>

\* lines 471-508: MealsAPI.sync resolves with the response; the loop starts
SyncReceive(t) ==
    /\ pc[t] = "awaitResponse"
    /\ LoopFrom(t, response[t], 1)
    /\ UNCHANGED <<dbVars, metaVars, schedVars, now, serverStore, pendingMeals,
                   lastSyncArg, response, found, toDelete, err, lostAcks, events, currentStatus>>
    /\ flagged' = flagged \cup response[t].conflicts
    /\ UNCHANGED <<svcArg, reconnected, apiVars>>

\* line 150 (markSynced): the lookup by clientId resolves; no such record: back to the loop
MarkSyncedRead(t) ==
    /\ pc[t] = "markRead"
    /\ LET meal == FirstByClientId(meals, pendingMeals[t][idx[t]].clientId)
       IN /\ found' = [found EXCEPT ![t] = meal]
          /\ IF meal # 0
             THEN Goto(t, "markWrite") /\ idx' = idx
             ELSE LoopFrom(t, response[t], idx[t] + 1)
    /\ UNCHANGED <<dbVars, metaVars, schedVars, now, serverStore, pendingMeals,
                   lastSyncArg, response, toDelete, err, lostAcks, events, currentStatus>>
    /\ UNCHANGED <<svcArg, flagged, reconnected, apiVars>>

\* lines 152-156 (markSynced): db.meals.update resolves; back to the loop
MarkSyncedWrite(t) ==
    /\ pc[t] = "markWrite"
    /\ LET serverMeal == response[t].server_meals[
                FindServerMeal(response[t], pendingMeals[t][idx[t]].clientId)]
       IN meals' = markSyncedUpdate(meals, found[t], serverMeal.id, now)
    /\ found' = [found EXCEPT ![t] = 0]
    /\ LoopFrom(t, response[t], idx[t] + 1)
    /\ UNCHANGED <<nextId, nextUuid, metaVars, schedVars, now, serverStore,
                   pendingMeals, lastSyncArg, response, toDelete, err, lostAcks, events, currentStatus>>
    /\ UNCHANGED <<svcArg, flagged, reconnected, apiVars>>

\* line 515: the transaction of mergeFromServer commits
MergeFromServer(t) ==
    /\ pc[t] = "merge"
    /\ LET db == mergeFromServer([meals |-> meals, nextId |-> nextId],
                                 response[t].server_meals, now)
       IN /\ db.nextId <= MaxMeals + 1
          /\ meals' = db.meals
          /\ nextId' = db.nextId
    /\ Goto(t, "setLast")
    /\ UNCHANGED <<nextUuid, metaVars, schedVars, now, serverStore, pendingMeals,
                   lastSyncArg, response, idx, found, toDelete, err, lostAcks, events, currentStatus>>
    /\ UNCHANGED <<svcArg, flagged, reconnected, apiVars>>

\* line 519: setLastSyncTime()
SetLastSyncTime(t) ==
    /\ pc[t] = "setLast"
    /\ lastSyncTime' = now
    /\ Goto(t, "setIdle")
    /\ UNCHANGED <<dbVars, syncStatus, schedVars, now, serverStore, pendingMeals,
                   lastSyncArg, response, idx, found, toDelete, err, lostAcks, events, currentStatus>>
    /\ UNCHANGED <<svcArg, flagged, reconnected, apiVars>>

\* a cycle that goes on to cleanupExpired without writing 'idle'
SetIdleKeepsStatus(t) ==
    /\ pc[t] = "setIdle"
    /\ Goto(t, "cleanupQuery")
    /\ UNCHANGED <<dbVars, metaVars, schedVars, now, serverStore, pendingMeals,
                   lastSyncArg, response, idx, found, toDelete, err, lostAcks, events, currentStatus>>
    /\ UNCHANGED <<svcArg, flagged, reconnected, apiVars>>

\* line 520: setSyncStatus('idle'); cleanupExpired is called
SetIdle(t) ==
    /\ pc[t] = "setIdle"
    /\ syncStatus' = "idle"
    /\ Goto(t, "cleanupQuery")
    /\ UNCHANGED <<dbVars, lastSyncTime, schedVars, now, serverStore, pendingMeals,
                   lastSyncArg, response, idx, found, toDelete, err, lostAcks, events, currentStatus>>
    /\ UNCHANGED <<svcArg, flagged, reconnected, apiVars>>

\* lines 322-328 (cleanupExpired): the selection query resolves
CleanupQuery(t) ==
    /\ pc[t] = "cleanupQuery"
    /\ toDelete' = [toDelete EXCEPT ![t] = ExpiredIds(meals)]
    /\ Goto(t, "cleanupDelete")
    /\ UNCHANGED <<dbVars, metaVars, schedVars, now, serverStore, pendingMeals,
                   lastSyncArg, response, idx, found, err, lostAcks, events, currentStatus>>
    /\ UNCHANGED <<svcArg, flagged, reconnected, apiVars>>

\* lines 329-331 (cleanupExpired): bulkDelete resolves; triggerSync returns
CleanupDelete(t) ==
    /\ pc[t] = "cleanupDelete"
    /\ meals' = bulkDelete(meals, toDelete[t])
    /\ Return(t)
    /\ UNCHANGED <<nextId, nextUuid, metaVars, schedVars, now, serverStore, lostAcks, events>>
    /\ UNCHANGED <<svcArg, flagged, reconnected, apiVars>>

\* a catch block that also records the failed attempt as the last sync
CatchAdvancesSyncTime(t) ==
    /\ pc[t] = "catch"
    /\ syncStatus' = "error"
    /\ lastSyncTime' = now
    /\ Return(t)
    /\ UNCHANGED <<dbVars, schedVars, now, serverStore, lostAcks, events>>
    /\ UNCHANGED <<svcArg, flagged, reconnected, apiVars>>

\* lines 528-531: the catch block: setSyncStatus('error'); triggerSync returns
Catch(t) ==
    /\ pc[t] = "catch"
    /\ syncStatus' = "error"
    /\ Return(t)
    /\ UNCHANGED <<dbVars, lastSyncTime, schedVars, now, serverStore, lostAcks, events>>
    /\ UNCHANGED <<svcArg, flagged, reconnected, apiVars>>

\* line 530: the write of 'error' rejects (local storage failure) inside the catch
\* block: nothing is written and triggerSync rejects
CatchFail(t) ==
    /\ Event
    /\ pc[t] = "catch"
    /\ Reject(t)
    /\ UNCHANGED <<dbVars, metaVars, schedVars, now, serverStore, lostAcks>>
    /\ UNCHANGED <<svcArg, flagged, reconnected, apiVars>>

(* ------------------------- the other device --------------------------- *)

\* a record created on another device reaches the server
OtherDevicePush ==
    /\ Event
    /\ \A s \in serverStore : s.client_id # ForeignClientId
    /\ serverStore' = ServerUpsert(serverStore,
            [client_id |-> ForeignClientId, val |-> "a", record_date |-> CutoffDate])
    /\ UNCHANGED <<dbVars, metaVars, schedVars, now, taskVars, lostAcks>>
    /\ UNCHANGED <<svcArg, flagged, reconnected, apiVars>>

(* --------------------------- specification ---------------------------- *)

ClientIdsOf(pending) == {pending[k].clientId : k \in 1..Len(pending)}

Next ==
    \/ Tick
    \/ \E meal \in NewMeals : Add(meal)
    \/ \E id \in Ids, changes \in FieldChanges : Update(id, changes)
    \/ \E id \in Ids : Delete(id)
    \/ DirectTrigger
    \/ OnlineEvent
    \/ OfflineEvent
    \/ Start
    \/ Stop
    \/ TimerTick
    \/ OtherDevicePush
    \/ \E t \in Tasks : GetStatusFail(t)
    \/ \E t \in Tasks : GetStatus(t)
    \/ \E t \in Tasks : StorageFail(t)
    \/ \E t \in Tasks : SetSyncing(t)
    \/ \E t \in Tasks : GetPending(t)
    \/ \E t \in Tasks : SetIdleEmpty(t)
    \/ \E t \in Tasks : ImportFail(t)
    \/ \E t \in Tasks : GetLastSyncTime(t)
    \/ \E t \in Tasks : SyncFail(t)
    \/ \E t \in Tasks : \E conflicts \in SUBSET ClientIdsOf(pendingMeals[t]) :
          \E extra \in SUBSET ServerAccept(serverStore, mealsToSync(pendingMeals[t]),
                                           conflicts) :
             ServerSync(t, conflicts, extra)
    \/ \E t \in Tasks : SyncLost(t)
    \/ \E t \in Tasks : SyncReceive(t)
    \/ \E t \in Tasks : MarkSyncedRead(t)
    \/ \E t \in Tasks : MarkSyncedWrite(t)
    \/ \E t \in Tasks : MergeFromServer(t)
    \/ \E t \in Tasks : SetLastSyncTime(t)
    \/ \E t \in Tasks : SetIdle(t)
    \/ \E t \in Tasks : CleanupQuery(t)
    \/ \E t \in Tasks : CleanupDelete(t)
    \/ \E t \in Tasks : Catch(t)
    \/ \E t \in Tasks : CatchFail(t)

Spec == Init /\ [][Next]_vars

(* ------------------------------- claims ------------------------------- *)

\* the task has written 'syncing' and has not yet written 'idle' or 'error'
InCycle(t) ==
    pc[t] \in {"getPending", "setIdleEmpty", "getLast", "callSync", "awaitResponse",
               "markRead", "markWrite", "merge", "setLast", "setIdle", "catch"}

\* the response has been applied: the marking loop and mergeFromServer are done
Applied(t) == pc[t] \in {"setLast", "setIdle", "cleanupQuery", "cleanupDelete"}

\* the local ids of the records that carry clientId
LocalIdsOf(store, clientId) == {i \in DOMAIN store : store[i].clientId = clientId}

\* the task has called MealsAPI.sync and the call has neither resolved nor rejected
SyncInFlight(t) == pc[t] \in {"callSync", "awaitResponse"}

\* C1: single-flight. Whatever the interleaving of triggers, at most one
\* reconciliation cycle is in flight at any time; in particular two invocations of
\* triggerSync in rapid succession never have two calls of MealsAPI.sync in flight.
C1_SingleFlight ==
    /\ Cardinality({t \in Tasks : SyncInFlight(t)}) <= 1
    /\ (\E t \in Tasks : SyncInFlight(t)) => Cardinality({t \in Tasks : InCycle(t)}) <= 1

\* C2: conflict surfacing. When a successful cycle ends (triggerSync returns after
\* cleanupExpired), every local record whose clientId was pushed in the cycle and
\* is listed in the response's conflicts has syncStatus CONFLICT.
C2_ConflictSurfacing ==
    [][\A t \in Tasks : CleanupDelete(t) =>
          \A k \in 1..Len(pendingMeals[t]) :
             pendingMeals[t][k].clientId \in response[t].conflicts =>
                \A i \in LocalIdsOf(meals', pendingMeals[t][k].clientId) :
                   meals'[i].syncStatus = "CONFLICT"]_vars

\* the id the response returns for clientId (0: server_meals has no such entry)
ReturnedServerId(resp, clientId) ==
    IF FindServerMeal(resp, clientId) = 0 THEN 0
    ELSE resp.server_meals[FindServerMeal(resp, clientId)].id

\* C3: when a cycle has applied the server response (the marking loop and
\* mergeFromServer are done), every local record whose clientId was pushed in the
\* cycle and is not in the response's conflicts is SYNCED and carries the id the
\* server returned for that clientId.
C3_PushedMarkedSynced ==
    [][\A t \in Tasks :
          (pc[t] \in {"awaitResponse", "markRead", "markWrite", "merge"}
             /\ pc'[t] = "setLast") =>
          \A k \in 1..Len(pendingMeals[t]) :
             pendingMeals[t][k].clientId \notin response[t].conflicts =>
                \A i \in LocalIdsOf(meals', pendingMeals[t][k].clientId) :
                   /\ meals'[i].syncStatus = "SYNCED"
                   /\ meals'[i].serverId # 0
                   /\ meals'[i].serverId =
                         ReturnedServerId(response[t], pendingMeals[t][k].clientId)]_vars

\* C3 witness: a cycle that pushed two records has applied a response that flags one
\* of them and returns the other, which is now SYNCED with its server id
C3_Witness ==
    \E t \in Tasks :
       /\ pc[t] = "setLast"
       /\ response[t].conflicts # {}
       /\ \E k \in 1..Len(pendingMeals[t]) :
             /\ pendingMeals[t][k].clientId \notin response[t].conflicts
             /\ \E i \in LocalIdsOf(meals, pendingMeals[t][k].clientId) :
                   /\ meals[i].syncStatus = "SYNCED"
                   /\ meals[i].serverId =
                         ReturnedServerId(response[t], pendingMeals[t][k].clientId)

\* the client_ids of the records this device has created so far
CreatedClientIds == {generateClientId(n) : n \in 1..(nextUuid - 1)}

\* C4: idempotent push. A batch pushed again after its response was lost is pushed
\* under the same clientIds: the server, which keys records on client_id, holds one
\* record per clientId and none but those of records some device created, and once
\* a cycle has applied its response the local store holds at most one record for
\* each clientId that was pushed.
C4_IdempotentPush ==
    /\ \A s1, s2 \in serverStore : s1.client_id = s2.client_id => s1 = s2
    /\ \A s \in serverStore : s.client_id \in CreatedClientIds \cup {ForeignClientId}
    /\ \A t \in Tasks : Applied(t) =>
          \A k \in 1..Len(pendingMeals[t]) :
             Cardinality(LocalIdsOf(meals, pendingMeals[t][k].clientId)) <= 1

\* C4 witness: a cycle has applied the response to a batch that holds a record the
\* server had already accepted in a cycle whose response was lost; the server and
\* the local store hold exactly one record with its clientId
C4_Witness ==
    \E t \in Tasks :
       /\ pc[t] = "setLast"
       /\ \E k \in 1..Len(pendingMeals[t]) :
             /\ pendingMeals[t][k].clientId \in lostAcks
             /\ Cardinality({s \in serverStore :
                               s.client_id = pendingMeals[t][k].clientId}) = 1
             /\ Cardinality(LocalIdsOf(meals, pendingMeals[t][k].clientId)) = 1

\* a step of task t from the start of its cycle up to the result of MealsAPI.sync,
\* or the catch block's step after MealsAPI.sync rejected
FailedSyncStep(t) ==
    /\ pc'[t] # pc[t]
    /\ \/ pc[t] \in {"setSyncing", "getPending", "getLast", "callSync"}
       \/ pc[t] = "awaitResponse" /\ pc'[t] = "catch"
       \/ pc[t] = "catch" /\ err[t] = "network"

\* C5: a cycle whose sync request fails changes no local meal record and does not
\* advance lastSyncTime: none of its steps, from its start to the end of its catch
\* block, writes db.meals or the lastSyncTime row.
C5_FailedSyncLeavesStore ==
    [][\A t \in Tasks : FailedSyncStep(t) =>
          (meals' = meals /\ lastSyncTime' = lastSyncTime)]_vars

\* C5 witness: MealsAPI.sync has rejected after the server took the batch; the
\* pushed records are in the store as they were pushed, still PENDING, and
\* lastSyncTime is what the cycle read
C5_Witness ==
    \E t \in Tasks :
       /\ pc[t] = "catch"
       /\ err[t] = "network"
       /\ lostAcks # {}
       /\ Len(pendingMeals[t]) > 0
       /\ \A k \in 1..Len(pendingMeals[t]) :
             /\ pendingMeals[t][k].id \in DOMAIN meals
             /\ meals[pendingMeals[t][k].id] = pendingMeals[t][k]
             /\ pendingMeals[t][k].syncStatus = "PENDING"
       /\ lastSyncTime = lastSyncArg[t]

\* C6: a failure of any step of a started cycle is absorbed: the cycle ends with
\* syncStatus = 'error' and triggerSync returns normally; the step that ends the
\* catch block writes 'error' and no invocation of triggerSync ends rejected by
\* an error thrown inside the cycle.
C6_ErrorAbsorbed ==
    [][\A t \in Tasks :
          (pc[t] = "catch" /\ pc'[t] # "catch") =>
              (syncStatus' = "error" /\ pc'[t] = "idle")]_vars

\* the clientIds of the records that are PENDING in the store
PendingClientIds == {meals[i].clientId : i \in {j \in DOMAIN meals :
                                                  meals[j].syncStatus = "PENDING"}}

\* C7: retry after failure. A trigger that reads syncStatus = 'error' is not
\* blocked: it goes on to write 'syncing'; the cycle it starts takes every record
\* that is PENDING when it reads the store, and the request it builds carries one
\* wire record, with the record's clientId and fields, for each of them.
C7_RetryAfterError ==
    /\ [][\A t \in Tasks :
            (GetStatus(t) /\ getSyncStatus = "error") => pc'[t] = "setSyncing"]_vars
    /\ [][\A t \in Tasks :
            GetPending(t) =>
                /\ ClientIdsOf(pendingMeals'[t]) = PendingClientIds
                /\ Len(pendingMeals'[t]) =
                      Cardinality({j \in DOMAIN meals : meals[j].syncStatus = "PENDING"})
                /\ (PendingClientIds # {} => pc'[t] = "getLast")]_vars
    /\ [](\A t \in Tasks : pc[t] \in {"callSync", "awaitResponse"} =>
            /\ Len(mealsToSync(pendingMeals[t])) = Len(pendingMeals[t])
            /\ \A k \in 1..Len(pendingMeals[t]) :
                  /\ mealsToSync(pendingMeals[t])[k].client_id = pendingMeals[t][k].clientId
                  /\ mealsToSync(pendingMeals[t])[k].val = pendingMeals[t][k].val
                  /\ mealsToSync(pendingMeals[t])[k].record_date =
                        pendingMeals[t][k].recordDate)

\* C7 witness: an invocation that read 'error' has pushed a record whose earlier
\* push failed, and the server has answered
C7_Witness ==
    \E t \in Tasks :
       /\ currentStatus[t] = "error"
       /\ pc[t] = "awaitResponse"
       /\ ClientIdsOf(pendingMeals[t]) \cap lostAcks # {}

\* C8: retention never deletes unconfirmed data: every record that the bulkDelete
\* of cleanupExpired removes is SYNCED at the moment it is removed.
C8_RetentionKeepsUnconfirmed ==
    [][\A t \in Tasks : CleanupDelete(t) =>
          \A i \in DOMAIN meals \ DOMAIN meals' : meals[i].syncStatus = "SYNCED"]_vars

\* C9: edits are never lost to an in-flight cycle: a record the cycle pushed that
\* has since been edited (it is PENDING and no longer the version the cycle read)
\* is left as it is by the cycle's application of the response, markSynced and
\* mergeFromServer, so that it holds the edit and is PENDING when the cycle ends.
C9_EditsSurviveCycle ==
    [][\A t \in Tasks : (MarkSyncedWrite(t) \/ MergeFromServer(t)) =>
          \A k \in 1..Len(pendingMeals[t]) :
             (/\ pendingMeals[t][k].id \in DOMAIN meals
              /\ meals[pendingMeals[t][k].id] # pendingMeals[t][k]
              /\ meals[pendingMeals[t][k].id].syncStatus = "PENDING")
                => meals'[pendingMeals[t][k].id] = meals[pendingMeals[t][k].id]]_vars

(* ------------------ update called with any changes object ------------- *)

\* changes objects that carry the other properties of Partial<CachedMeal>
OtherChanges ==
    {[NoChanges EXCEPT !.serverId = n] : n \in Ids}
        \cup {[NoChanges EXCEPT !.clientId = generateClientId(n)] : n \in Ids}
        \cup {[NoChanges EXCEPT !.syncStatus = st] : st \in {"SYNCED", "CONFLICT"}}
        \cup {[NoChanges EXCEPT !.updatedAt = u] : u \in Times}

AnyChanges == FieldChanges \cup OtherChanges

NextAnyChanges ==
    \/ Next
    \/ \E id \in Ids, changes \in OtherChanges : Update(id, changes)

SpecAnyChanges == Init /\ [][NextAnyChanges]_vars

\* C10: edit resets sync state: update(id, changes) on a record in any syncStatus,
\* with any changes object, leaves it PENDING with updatedAt set to the time of the
\* call, and leaves its serverId unchanged.
C10_EditResetsSyncState ==
    [][\A id \in Ids, changes \in AnyChanges : Update(id, changes) =>
          /\ meals'[id].syncStatus = "PENDING"
          /\ meals'[id].updatedAt = now
          /\ meals'[id].serverId = meals[id].serverId]_vars

(* ------------- the exported services called directly ------------------ *)
(* markSynced, mergeFromServer and cleanupExpired are exported and can be *)
(* called by any module, outside a sync cycle and with any arguments.  A  *)
(* call runs in a task slot; its first database operation is taken at the *)
(* call (nothing the call does before it is visible to anyone else).      *)

\* the clientIds a caller passes: those of records of this device, and a foreign one
CallClientIds == {generateClientId(n) : n \in Ids} \cup {ForeignClientId}

\* the entries of the server_meals lists mergeFromServer is called with
CallServerMeals ==
    [id : Ids, client_id : {generateClientId(1), ForeignClientId},
     val : {"b"}, record_date : {CutoffDate - 1}]

\* the lists mergeFromServer is called with: one or two entries, in any order, a
\* client_id possibly named twice
CallServerMealLists ==
    {<<e>> : e \in CallServerMeals}
        \cup {<<e1, e2>> : e1 \in CallServerMeals, e2 \in CallServerMeals}

\* markSynced(clientId, serverId), lines 149-151: the lookup resolves; without a
\* record the call returns, else db.meals.update is awaited
MarkSyncedCall(clientId, serverId) ==
    /\ Event
    /\ IdleTasks # {}
    /\ LET t == Min(IdleTasks)
           meal == FirstByClientId(meals, clientId)
       IN IF meal # 0
          THEN /\ pc' = [pc EXCEPT ![t] = "svcMarkWrite"]
               /\ found' = [found EXCEPT ![t] = meal]
               /\ svcArg' = [svcArg EXCEPT ![t] = serverId]
          ELSE /\ pc' = [pc EXCEPT ![t] = "idle"]
               /\ UNCHANGED <<found, svcArg>>
    /\ UNCHANGED <<dbVars, metaVars, schedVars, now, serverStore, currentStatus,
                   pendingMeals, lastSyncArg, response, idx, toDelete, err,
                   lostAcks, flagged, reconnected, apiVars>>

\* markSynced, lines 152-157: db.meals.update resolves; the call returns
MarkSyncedCallWrite(t) ==
    /\ pc[t] = "svcMarkWrite"
    /\ meals' = markSyncedUpdate(meals, found[t], svcArg[t], now)
    /\ pc' = [pc EXCEPT ![t] = "idle"]
    /\ found' = [found EXCEPT ![t] = 0]
    /\ svcArg' = [svcArg EXCEPT ![t] = 0]
    /\ UNCHANGED <<nextId, nextUuid, metaVars, schedVars, now, serverStore,
                   currentStatus, pendingMeals, lastSyncArg, response, idx, toDelete,
                   err, lostAcks, flagged, reconnected, apiVars, events>>

\* mergeFromServer(serverMeals), lines 192-246: the transaction commits; a list
\* names client_ids that exist (crypto.randomUUID() never returns a value that is
\* already in somebody's list)
MergeFromServerCall(serverMeals) ==
    /\ Event
    /\ \A k \in 1..Len(serverMeals) :
          serverMeals[k].client_id \in CreatedClientIds \cup {ForeignClientId}
    /\ LET db == mergeFromServer([meals |-> meals, nextId |-> nextId], serverMeals, now)
       IN /\ db.nextId <= MaxMeals + 1
          /\ meals' = db.meals
          /\ nextId' = db.nextId
    /\ UNCHANGED <<nextUuid, metaVars, schedVars, now, serverStore, taskVars, svcArg,
                   lostAcks, flagged, reconnected, apiVars>>

\* cleanupExpired(), lines 316-328: the selection query resolves; bulkDelete is awaited
CleanupExpiredCall ==
    /\ Event
    /\ IdleTasks # {}
    /\ LET t == Min(IdleTasks)
       IN /\ pc' = [pc EXCEPT ![t] = "svcCleanupDelete"]
          /\ toDelete' = [toDelete EXCEPT ![t] = ExpiredIds(meals)]
    /\ UNCHANGED <<dbVars, metaVars, schedVars, now, serverStore, currentStatus,
                   pendingMeals, lastSyncArg, response, idx, found, err, svcArg,
                   lostAcks, flagged, reconnected, apiVars>>

\* cleanupExpired, lines 329-331: bulkDelete resolves; the call returns
\* idsToDelete.length
CleanupExpiredCallDelete(t) ==
    /\ pc[t] = "svcCleanupDelete"
    /\ meals' = bulkDelete(meals, toDelete[t])
    /\ pc' = [pc EXCEPT ![t] = "idle"]
    /\ toDelete' = [toDelete EXCEPT ![t] = {}]
    /\ UNCHANGED <<nextId, nextUuid, metaVars, schedVars, now, serverStore,
                   currentStatus, pendingMeals, lastSyncArg, response, idx, found, err,
                   svcArg, lostAcks, flagged, reconnected, apiVars, events>>

\* the second database operation of a direct call rejects (local storage failure):
\* nothing is written, the call rejects to its caller
ServiceCallFail(t) ==
    /\ Event
    /\ pc[t] \in {"svcMarkWrite", "svcCleanupDelete"}
    /\ pc' = [pc EXCEPT ![t] = "idle"]
    /\ found' = [found EXCEPT ![t] = 0]
    /\ svcArg' = [svcArg EXCEPT ![t] = 0]
    /\ toDelete' = [toDelete EXCEPT ![t] = {}]
    /\ UNCHANGED <<dbVars, metaVars, schedVars, now, serverStore, currentStatus,
                   pendingMeals, lastSyncArg, response, idx, err, lostAcks, flagged, reconnected, apiVars>>

NextServices ==
    \/ NextAnyChanges
    \/ \E clientId \in CallClientIds, serverId \in Ids : MarkSyncedCall(clientId, serverId)
    \/ \E t \in Tasks : MarkSyncedCallWrite(t)
    \/ \E serverMeals \in CallServerMealLists : MergeFromServerCall(serverMeals)
    \/ CleanupExpiredCall
    \/ \E t \in Tasks : CleanupExpiredCallDelete(t)
    \/ \E t \in Tasks : ServiceCallFail(t)

SpecServices == Init /\ [][NextServices]_vars

(* --------------------------- claims, continued ------------------------ *)

\* C11: in every reachable state, whatever sequence of add, update, delete,
\* markSynced, mergeFromServer, cleanupExpired and sync cycles led to it, every
\* local record whose syncStatus is SYNCED has a serverId.
C11_SyncedHasServerId ==
    \A i \in DOMAIN meals : meals[i].syncStatus = "SYNCED" => meals[i].serverId # 0

\* C11 witness: a record is SYNCED and has a serverId while no cycle has ever reached
\* the server: a direct call of markSynced or mergeFromServer has marked it
C11_Witness ==
    /\ serverStore = {}
    /\ \A t \in Tasks : pc[t] = "idle"
    /\ \E i \in DOMAIN meals :
          /\ meals[i].clientId = generateClientId(1)
          /\ meals[i].syncStatus = "SYNCED"
          /\ meals[i].serverId # 0

\* C12: clientId is immutable: no step (update with any changes object, markSynced,
\* mergeFromServer, a sync cycle) changes the clientId of a record that exists
\* before and after it.
C12_ClientIdImmutable ==
    [][\A i \in DOMAIN meals \cap DOMAIN meals' :
          meals'[i].clientId = meals[i].clientId]_vars

\* the bounds of the date ranges that are queried
QueryDates == (CutoffDate - 2)..(CutoffDate + 1)

\* C13: local-write independence: in every scheduler and network state add stores
\* the record as PENDING without touching the network, the server or the sync
\* metadata, and a getByDateRange that follows it immediately, over any range that
\* contains the record's recordDate, returns the new record.
C13_LocalWriteIndependence ==
    [][\A meal \in NewMeals : Add(meal) =>
          /\ nextId \in DOMAIN meals'
          /\ meals'[nextId].val = meal.val
          /\ meals'[nextId].recordDate = meal.recordDate
          /\ meals'[nextId].syncStatus = "PENDING"
          /\ \A startDate \in QueryDates, endDate \in QueryDates :
                (startDate <= meal.recordDate /\ meal.recordDate <= endDate)
                    => meals'[nextId] \in getByDateRange(meals', startDate, endDate)
          /\ UNCHANGED <<serverStore, pc, response, syncStatus, lastSyncTime>>]_vars

\* C13 witness: a record was added while a cycle was waiting for the server (status
\* 'syncing'): it is not part of that cycle's batch, it is PENDING, and the range
\* query over its day returns it
C13_Witness ==
    \E t \in Tasks :
       /\ pc[t] = "awaitResponse"
       /\ syncStatus = "syncing"
       /\ \E i \in DOMAIN meals :
             /\ meals[i].clientId \notin ClientIdsOf(pendingMeals[t])
             /\ meals[i].syncStatus = "PENDING"
             /\ meals[i].serverId = 0
             /\ meals[i] \in getByDateRange(meals, meals[i].recordDate, meals[i].recordDate)

\* the last entry of a server_meals list that names clientId: the loop of
\* mergeFromServer applies the entries in order
LastEntryFor(serverMeals, clientId) ==
    serverMeals[CHOOSE k \in 1..Len(serverMeals) :
                   /\ serverMeals[k].client_id = clientId
                   /\ \A j \in (k + 1)..Len(serverMeals) :
                         serverMeals[j].client_id # clientId]

\* what a step that runs mergeFromServer(serverMeals) does for the entries whose
\* client_id matches no local record
MergeInsertsForeign(serverMeals) ==
    \A k \in 1..Len(serverMeals) :
       LocalIdsOf(meals, serverMeals[k].client_id) = {} =>
          /\ Cardinality(LocalIdsOf(meals', serverMeals[k].client_id)) = 1
          /\ \A i \in LocalIdsOf(meals', serverMeals[k].client_id) :
                /\ i \notin DOMAIN meals
                /\ meals'[i].syncStatus = "SYNCED"
                /\ meals'[i].serverId =
                      LastEntryFor(serverMeals, serverMeals[k].client_id).id

\* C14: merge of foreign records: for every server_meals entry whose client_id
\* matches no local record, mergeFromServer (called directly or by a cycle) inserts
\* exactly one new record with that clientId, SYNCED, whose serverId is the entry's
\* id (the id of the last entry, should the list name the client_id more than once).
C14_MergeInsertsForeign ==
    /\ [][\A serverMeals \in CallServerMealLists :
            MergeFromServerCall(serverMeals) => MergeInsertsForeign(serverMeals)]_vars
    /\ [][\A t \in Tasks :
            MergeFromServer(t) => MergeInsertsForeign(response[t].server_meals)]_vars

\* C14 witness: the store holds exactly one record with the client_id of another
\* device's record, SYNCED and with a serverId: a merge has inserted it
C14_Witness ==
    /\ Cardinality(LocalIdsOf(meals, ForeignClientId)) = 1
    /\ \A i \in LocalIdsOf(meals, ForeignClientId) :
          meals[i].syncStatus = "SYNCED" /\ meals[i].serverId # 0

\* what a step that runs mergeFromServer(serverMeals) does for the entries whose
\* client_id matches a local record (the one the lookup by clientId returns)
MergeOverwritesMatching(serverMeals) ==
    \A k \in 1..Len(serverMeals) :
       FirstByClientId(meals, serverMeals[k].client_id) # 0 =>
          /\ LocalIdsOf(meals', serverMeals[k].client_id)
                = LocalIdsOf(meals, serverMeals[k].client_id)
          /\ meals'[FirstByClientId(meals, serverMeals[k].client_id)] =
                [meals[FirstByClientId(meals, serverMeals[k].client_id)] EXCEPT
                    !.val = LastEntryFor(serverMeals, serverMeals[k].client_id).val,
                    !.recordDate =
                        LastEntryFor(serverMeals, serverMeals[k].client_id).record_date,
                    !.serverId = LastEntryFor(serverMeals, serverMeals[k].client_id).id,
                    !.syncStatus = "SYNCED",
                    !.updatedAt = now]

C16_OfflineTriggerNoOp ==
    [][(~isOnline /\ (DirectTrigger \/ Start \/ TimerTick)) =>
          UNCHANGED <<meals, nextId, syncStatus, lastSyncTime, serverStore, taskVars,
                      lostAcks, isOnline>>]_vars

\* C16 witness: start() was called offline with a PENDING record in the store: the
\* timer is set, no invocation is running and there is still no syncStatus row
C16_Witness ==
    /\ ~isOnline
    /\ timers # {}
    /\ syncStatus = ""
    /\ lastSyncTime = 0
    /\ \A t \in Tasks : pc[t] = "idle"
    /\ \E i \in DOMAIN meals : meals[i].syncStatus = "PENDING"

\* C17: an invocation of triggerSync that reads syncStatus = 'syncing' is dropped,
\* not queued: it returns at once, having changed no meal record, no sync metadata
\* and nothing on the server and keeping nothing; and an invocation only ever
\* starts with a trigger (direct call, 'online' event, start(), timer tick), never
\* with the end of a cycle.
C17_SyncingTriggerDropped ==
    /\ [][\A t \in Tasks :
            (GetStatus(t) /\ getSyncStatus = "syncing") =>
                /\ pc'[t] = "skipped"
                /\ UNCHANGED <<meals, nextId, syncStatus, lastSyncTime, serverStore,
                               currentStatus, pendingMeals, lastSyncArg, response,
                               lostAcks>>]_vars
    /\ [][\A t \in Tasks :
            (pc[t] # "getStatus" /\ pc'[t] = "getStatus") =>
                (DirectTrigger \/ OnlineEvent \/ Start \/ TimerTick)]_vars

\* C17 witness: an invocation has returned at line 430 while another one is inside
\* its cycle, with the status 'syncing' and a PENDING record in the store
C17_Witness ==
    \E t \in Tasks :
       /\ pc[t] = "skipped"
       /\ syncStatus = "syncing"
       /\ \E u \in Tasks \ {t} : InCycle(u)
       /\ \E i \in DOMAIN meals : meals[i].syncStatus = "PENDING"

\* C18: a record the server flagged as a conflict is not resubmitted automatically:
\* the batch a cycle reads, when no other invocation is running, holds no record
\* whose clientId a response received earlier listed in conflicts, unless the
\* record has been edited since.
C18_ConflictNotResubmitted ==
    [][\A t \in Tasks :
          (GetPending(t) /\ Tasks \ {t} \subseteq IdleTasks) =>
              ClientIdsOf(pendingMeals'[t]) \cap flagged = {}]_vars

\* the records a run of cleanupExpired removes, seen on the step of its bulkDelete
RemovedIds == DOMAIN meals \ DOMAIN meals'

\* C19: retention boundary: when the bulkDelete of cleanupExpired (run by a cycle or
\* called directly) takes effect, a SYNCED record is removed exactly when its
\* recordDate is strictly earlier than the cutoff (today minus 30 days), so that one
\* dated at the cutoff is kept and one dated a day earlier is removed, and the count
\* the run returns (idsToDelete.length) is the number of records removed.
C19_RetentionBoundary ==
    [][\A t \in Tasks :
          (CleanupDelete(t) \/ CleanupExpiredCallDelete(t)) =>
              /\ \A i \in DOMAIN meals :
                    meals[i].syncStatus = "SYNCED" =>
                       (i \in RemovedIds <=> meals[i].recordDate + RetentionDays < Today)
              /\ Cardinality(toDelete[t]) = Cardinality(RemovedIds)]_vars

\* C20: delete(id) removes the record with that local id at once, whatever its
\* syncStatus and whatever the scheduler is doing, and changes no other record: after
\* the call the id is gone, every other record is as it was, and neither the stored
\* sync status, the last sync time nor any running cycle is affected.
C20_DeleteUnconditional ==
    [][\A id \in Ids :
          Delete(id) =>
              /\ id \notin DOMAIN meals'
              /\ DOMAIN meals' = DOMAIN meals \ {id}
              /\ \A i \in DOMAIN meals' : meals'[i] = meals[i]
              /\ UNCHANGED <<syncStatus, lastSyncTime, pc, pendingMeals>>]_vars

\* a record that a running cycle has pushed, and that no cleanup can select, has been
\* deleted while the cycle waits for the response
C20_Witness ==
    \E t \in Tasks :
       /\ pc[t] = "awaitResponse"
       /\ syncStatus = "syncing"
       /\ \E k \in 1..Len(pendingMeals[t]) :
             /\ pendingMeals[t][k].recordDate = CutoffDate
             /\ LocalIdsOf(meals, pendingMeals[t][k].clientId) = {}

\* C21: serverId is stable: no step (update with any changes object, markSynced,
\* mergeFromServer, a sync cycle) changes or clears the serverId of a record that
\* has one, for as long as the record exists.
C21_ServerIdStable ==
    [][\A i \in DOMAIN meals \cap DOMAIN meals' :
          meals[i].serverId # 0 => meals'[i].serverId = meals[i].serverId]_vars

(* ---------------- reconnection without failures: liveness ------------- *)
(* The application as the sources use it: the scheduler is constructed    *)
(* (its 'online' and 'offline' listeners are set) and start() is not      *)
(* called.  No await fails, and the server flags no conflict and returns  *)
(* the pushed records only.  Every await of a running invocation          *)
(* eventually resolves; calls of the application and window events happen *)
(* or not.                                                                *)

\* the await task t is suspended at resolves
CycleStep(t) ==
    \/ GetStatus(t)
    \/ SetSyncing(t)
    \/ GetPending(t)
    \/ SetIdleEmpty(t)
    \/ GetLastSyncTime(t)
    \/ ServerSync(t, {}, {})
    \/ SyncReceive(t)
    \/ MarkSyncedRead(t)
    \/ MarkSyncedWrite(t)
    \/ MergeFromServer(t)
    \/ SetLastSyncTime(t)
    \/ SetIdle(t)
    \/ CleanupQuery(t)
    \/ CleanupDelete(t)

\* the 'online' listener of the constructor, observed: the records that are PENDING
\* when the event fires are noted
OnlineEventObserved ==
    /\ Event
    /\ IdleTasks # {}
    /\ isOnline' = TRUE
    /\ Invoke(Min(IdleTasks), TRUE)
    /\ reconnected' = {i \in DOMAIN meals : meals[i].syncStatus = "PENDING"}
    /\ UNCHANGED <<dbVars, metaVars, syncInterval, timers, now, serverStore, lostAcks,
                   svcArg, flagged, apiVars>>

NextReconnect ==
    \/ Tick
    \/ \E meal \in NewMeals : Add(meal)
    \/ \E id \in Ids, changes \in FieldChanges : Update(id, changes)
    \/ \E id \in Ids : Delete(id)
    \/ OnlineEventObserved
    \/ OfflineEvent
    \/ \E t \in Tasks : CycleStep(t)

SpecReconnect ==
    Init /\ [][NextReconnect]_vars /\ \A t \in Tasks : WF_vars(CycleStep(t))

\* C22: automatic sync on reconnect: a record that was PENDING when the 'online'
\* event fired eventually is SYNCED, with no further call or event, when no await
\* fails and the server flags no conflict (unless the user has edited or deleted
\* the record in the meantime).
C22_SyncOnReconnect ==
    \A i \in Ids :
       (i \in reconnected /\ i \in DOMAIN meals /\ meals[i].syncStatus = "PENDING")
         ~> (\/ i \notin reconnected
             \/ i \notin DOMAIN meals
             \/ meals[i].syncStatus = "SYNCED")

\* the records a sequence returned by a query holds
RecordsOf(result) == {result[k] : k \in 1..Len(result)}

\* C23: getByDateRange(start, end) returns exactly the local records whose
\* recordDate d satisfies start <= d <= end, whatever their syncStatus, and
\* getPending returns exactly the records whose syncStatus is PENDING, each once:
\* this holds of the empty store the program starts with and of the store every
\* step leaves behind when it changes it.
C23_QueriesExact ==
    [][LET Exact(store) ==
             /\ \A startDate \in QueryDates, endDate \in QueryDates :
                   LET inRange == getByDateRange(store, startDate, endDate) IN
                   /\ \A i \in DOMAIN store :
                         (store[i] \in inRange)
                            <=> (startDate <= store[i].recordDate /\ store[i].recordDate <= endDate)
                   /\ \A r \in inRange : \E i \in DOMAIN store : store[i] = r
             /\ LET pending == getPending(store) IN
                   /\ \A i \in DOMAIN store :
                         (store[i] \in RecordsOf(pending)) <=> store[i].syncStatus = "PENDING"
                   /\ \A r \in RecordsOf(pending) : \E i \in DOMAIN store : store[i] = r
                   /\ \A j, k \in 1..Len(pending) : pending[j] = pending[k] => j = k
       IN /\ meals = <<>> => Exact(meals)
          /\ meals' # meals => Exact(meals')]_vars

\* C23 witness: the store holds a SYNCED record and a PENDING record of different
\* days: the range over one day returns one of them, the range over both days
\* returns both, and getPending returns the PENDING one only
C23_Witness ==
    \E i, j \in DOMAIN meals :
       /\ meals[i].syncStatus = "SYNCED"
       /\ meals[j].syncStatus = "PENDING"
       /\ meals[i].recordDate # meals[j].recordDate
       /\ getByDateRange(meals, meals[i].recordDate, meals[i].recordDate) = {meals[i]}
       /\ Cardinality(getByDateRange(meals, CutoffDate - 1, CutoffDate)) = 2
       /\ getPending(meals) = <<meals[j]>>

C25_AppliedCycleEndsIdle ==
    /\ [][\A t \in Tasks : SetLastSyncTime(t) => lastSyncTime' = now]_vars
    /\ [][\A t \in Tasks :
            SetIdle(t) => /\ syncStatus' = "idle"
                          /\ lastSyncTime' # 0
                          /\ lastSyncTime' >= lastSyncArg[t]
                          /\ lastSyncTime' <= now]_vars
    /\ [][\A t \in Tasks :
            (pc[t] \in {"setLast", "setIdle"} /\ pc'[t] \notin {"setLast", "setIdle"}) =>
                (pc'[t] = "cleanupQuery" /\ syncStatus' = "idle" /\ lastSyncTime' # 0)]_vars
    /\ <>[](\A t \in Tasks : pc[t] \notin {"setLast", "setIdle"})

\* C25 witness: a cycle that pushed a record is past line 520: the status is
\* 'idle', lastSyncTime is the current time and the pushed record is SYNCED
C25_Witness ==
    \E t \in Tasks :
       /\ pc[t] = "cleanupQuery"
       /\ syncStatus = "idle"
       /\ lastSyncTime = now
       /\ Len(pendingMeals[t]) > 0
       /\ \A k \in 1..Len(pendingMeals[t]) :
             \E i \in LocalIdsOf(meals, pendingMeals[t][k].clientId) :
                meals[i].syncStatus = "SYNCED"

\* C26: SyncMeta.syncStatus changes only along idle -> syncing, syncing -> idle,
\* syncing -> error and error -> idle (a missing row reads as 'idle'), and
\* 'syncing' is never written while the status is 'syncing'.
C26_StatusStateMachine ==
    /\ [][syncStatus' # syncStatus =>
            \/ getSyncStatus = syncStatus'
            \/ <<getSyncStatus, syncStatus'>> \in
                  {<<"idle", "syncing">>, <<"syncing", "idle">>,
                   <<"syncing", "error">>, <<"error", "idle">>}]_vars
    /\ [][\A t \in Tasks : SetSyncing(t) => syncStatus # "syncing"]_vars

(* ------------------------ the process stops --------------------------- *)
(* The page is closed or reloaded while invocations are suspended at an   *)
(* await.  What is in memory is gone: the invocations, the scheduler's    *)
(* timer.  The IndexedDB database (line 57) keeps what was committed, and *)
(* when the module is loaded again a new SyncScheduler is constructed     *)
(* (line 536).                                                            *)

\* the client_ids of requests the server has answered and whose response is under way
AnsweredInFlight ==
    UNION {WireClientIds(mealsToSync(pendingMeals[t])) \ response[t].conflicts :
             t \in {u \in Tasks : pc[u] = "awaitResponse"}}

Restart ==
    /\ \E t \in Tasks : pc[t] # "idle"
    /\ pc' = [t \in Tasks |-> "idle"]
    /\ currentStatus' = [t \in Tasks |-> ""]
    /\ pendingMeals' = [t \in Tasks |-> <<>>]
    /\ lastSyncArg' = [t \in Tasks |-> 0]
    /\ response' = [t \in Tasks |-> NoResponse]
    /\ idx' = [t \in Tasks |-> 0]
    /\ found' = [t \in Tasks |-> 0]
    /\ toDelete' = [t \in Tasks |-> {}]
    /\ err' = [t \in Tasks |-> "none"]
    /\ svcArg' = [t \in Tasks |-> 0]
    /\ syncInterval' = 0
    /\ timers' = {}
    /\ lostAcks' = lostAcks \cup AnsweredInFlight
    /\ UNCHANGED <<dbVars, metaVars, isOnline, now, serverStore, flagged, reconnected, apiVars,
                   events>>

NextRestart ==
    \/ Next
    \/ Restart

SpecRestart == Init /\ [][NextRestart]_vars

\* the iterations of the loop of lines 501-511 that call markSynced
MarkingIterations(t) ==
    {k \in 1..Len(pendingMeals[t]) :
        /\ pendingMeals[t][k].clientId \notin response[t].conflicts
        /\ FindServerMeal(response[t], pendingMeals[t][k].clientId) # 0}

\* the store shows the markSynced of iteration k of task t
MarkVisible(store, t, k) ==
    \E i \in LocalIdsOf(store, pendingMeals[t][k].clientId) :
       /\ store[i].syncStatus = "SYNCED"
       /\ store[i].serverId = ReturnedServerId(response[t], pendingMeals[t][k].clientId)

\* the store shows the mergeFromServer of the response of task t: every entry of
\* server_meals has its local record, SYNCED, with the entry's id and fields
MergeVisible(store, t) ==
    \A j \in 1..Len(response[t].server_meals) :
       \E i \in LocalIdsOf(store, response[t].server_meals[j].client_id) :
          /\ store[i].syncStatus = "SYNCED"
          /\ store[i].serverId = response[t].server_meals[j].id
          /\ store[i].val = response[t].server_meals[j].val
          /\ store[i].recordDate = response[t].server_meals[j].record_date

\* C27: application of a response is all-or-nothing: when an invocation that is
\* applying a response (it is in the marking loop or awaits mergeFromServer) fails
\* or stops with the process, the store shows either every record change of the
\* response or none of them.
C27_ApplyAllOrNothing ==
    [][\A t \in Tasks :
          (pc[t] \in {"markRead", "markWrite", "merge"} /\ pc'[t] \in {"catch", "idle"}) =>
              \/ MergeVisible(meals', t)
              \/ \A k \in MarkingIterations(t) : ~MarkVisible(meals', t, k)]_vars

\* the pcs of a cycle that has read its pending set and has not yet ended
AfterRead == {"setIdleEmpty", "getLast", "callSync", "awaitResponse", "markRead",
              "markWrite", "merge", "setLast", "setIdle", "catch"}

\* record i was added after the cycle of task t read its pending set: the cycle is
\* in flight, the record is PENDING, was never synchronized, and is not in the batch
AddedDuringCycle(t, i) ==
    /\ pc[t] \in AfterRead
    /\ meals[i].syncStatus = "PENDING"
    /\ meals[i].serverId = 0
    /\ meals[i].clientId \notin ClientIdsOf(pendingMeals[t])

\* C28: a record added while a cycle is in flight, after the cycle read its pending
\* set, is not part of that cycle's push (the batch does not change after the
\* read and does not hold the new clientId), stays PENDING until that cycle ends
\* unless the user deletes it, and is in the batch the next cycle reads.
C28_AddedDuringCycleLeftForNext ==
    /\ [][\A t \in Tasks :
            (pc[t] \in AfterRead /\ pc'[t] \in AfterRead) =>
                pendingMeals'[t] = pendingMeals[t]]_vars
    /\ [][\A meal \in NewMeals : Add(meal) =>
            \A t \in Tasks : pc[t] \in AfterRead =>
                /\ meals'[nextId].syncStatus = "PENDING"
                /\ meals'[nextId].clientId \notin ClientIdsOf(pendingMeals'[t])
                /\ meals'[nextId].clientId \notin
                      WireClientIds(mealsToSync(pendingMeals'[t]))]_vars
    /\ [][\A t \in Tasks, i \in DOMAIN meals :
            (AddedDuringCycle(t, i) /\ ~Delete(i)) =>
                (i \in DOMAIN meals' /\ meals'[i].syncStatus = "PENDING")]_vars
    /\ [][\A t \in Tasks : GetPending(t) =>
            PendingClientIds \subseteq ClientIdsOf(pendingMeals'[t])]_vars

\* C29: the batch a cycle submits holds exactly one wire record, with the record's
\* clientId as client_id, for each record that was PENDING when the cycle read its
\* pending set, and no other; it is sent in one request, together with the
\* lastSyncTime stored at the moment of the call.
C29_BatchIsPendingSet ==
    [][\A t \in Tasks :
         /\ GetPending(t) =>
               /\ \A i \in DOMAIN meals :
                     (meals[i] \in RecordsOf(pendingMeals'[t]))
                        <=> meals[i].syncStatus = "PENDING"
               /\ Len(pendingMeals'[t]) = Cardinality(RecordsOf(pendingMeals'[t]))
               /\ RecordsOf(pendingMeals'[t]) \subseteq {meals[i] : i \in DOMAIN meals}
         /\ (pc[t] \in {"getLast", "callSync"} /\ pc'[t] \in {"callSync", "awaitResponse"}) =>
               /\ pendingMeals'[t] = pendingMeals[t]
               /\ Len(mealsToSync(pendingMeals[t])) = Len(pendingMeals[t])
               /\ \A k \in 1..Len(pendingMeals[t]) :
                     /\ mealsToSync(pendingMeals[t])[k].client_id
                           = pendingMeals[t][k].clientId
                     /\ pendingMeals[t][k].syncStatus = "PENDING"
               /\ Cardinality(WireClientIds(mealsToSync(pendingMeals[t])))
                     = Len(pendingMeals[t])
         /\ GetLastSyncTime(t) => lastSyncArg'[t] = lastSyncTime
         /\ (pc[t] # "callSync" /\ pc'[t] = "callSync") => pc[t] = "getLast"]_vars

\* C29 witness: a cycle has sent, in one request, a batch of the two records that
\* were PENDING when it read the store, under their two clientIds
C29_Witness ==
    \E t \in Tasks :
       /\ pc[t] = "awaitResponse"
       /\ Len(pendingMeals[t]) = 2
       /\ WireClientIds(mealsToSync(pendingMeals[t]))
             = {generateClientId(1), generateClientId(2)}
       /\ lastSyncArg[t] = lastSyncTime

\* the invocation is inside cleanupExpired
InCleanup(t) == pc[t] \in {"cleanupQuery", "cleanupDelete"}

\* C30: cleanupExpired never runs concurrently with a sync cycle: while an
\* invocation is inside cleanupExpired no other invocation is inside a cycle, and a
\* trigger that arrives in the meantime does not start one.
C30_CleanupNotConcurrent ==
    /\ [][\A t \in Tasks : \A u \in Tasks \ {t} :
            (InCleanup(t) /\ GetStatus(u)) => pc'[u] # "setSyncing"]_vars
    /\ [](\A t \in Tasks : InCleanup(t) => \A u \in Tasks \ {t} : ~InCycle(u))

(* ------------------------------ clearAll ------------------------------ *)
(* CacheCleanupService.clearAll is exported ("used at logout") and can be *)
(* called at any time, also while triggerSync is suspended at an await.   *)
(* Its two awaits are two steps; db.meals.clear() is taken at the call.   *)
(* IDBObjectStore.clear() leaves the key generator of the table as it is. *)

\* clearAll(), line 368: db.meals.clear() resolves; db.syncMeta.clear() is awaited
ClearAllCall ==
    /\ Event
    /\ IdleTasks # {}
    /\ meals' = <<>>
    /\ pc' = [pc EXCEPT ![Min(IdleTasks)] = "svcClearMeta"]
    /\ UNCHANGED <<nextId, nextUuid, metaVars, schedVars, now, serverStore, currentStatus,
                   pendingMeals, lastSyncArg, response, idx, found, toDelete, err, svcArg,
                   lostAcks, flagged, reconnected, apiVars>>

\* clearAll, line 369: db.syncMeta.clear() resolves: both rows are gone; the call returns
ClearAllMeta(t) ==
    /\ pc[t] = "svcClearMeta"
    /\ syncStatus' = ""
    /\ lastSyncTime' = 0
    /\ pc' = [pc EXCEPT ![t] = "idle"]
    /\ UNCHANGED <<dbVars, schedVars, now, serverStore, currentStatus, pendingMeals,
                   lastSyncArg, response, idx, found, toDelete, err, svcArg, lostAcks,
                   flagged, reconnected, apiVars, events>>

\* clearAll, line 369: db.syncMeta.clear() rejects (local storage failure): the rows
\* stay, the call rejects to its caller
ClearAllFail(t) ==
    /\ Event
    /\ pc[t] = "svcClearMeta"
    /\ pc' = [pc EXCEPT ![t] = "idle"]
    /\ UNCHANGED <<dbVars, metaVars, schedVars, now, serverStore, currentStatus,
                   pendingMeals, lastSyncArg, response, idx, found, toDelete, err, svcArg,
                   lostAcks, flagged, reconnected, apiVars>>

NextClearAll ==
    \/ NextServices
    \/ ClearAllCall
    \/ \E t \in Tasks : ClearAllMeta(t)
    \/ \E t \in Tasks : ClearAllFail(t)

SpecClearAll == Init /\ [][NextClearAll]_vars

\* C31: SyncMeta is changed only by the reconciliation cycle: every step that
\* changes syncStatus or lastSyncTime is one of the writes of triggerSync (lines
\* 434, 441, 519, 520, 530); add, update, delete, markSynced, mergeFromServer,
\* cleanupExpired and clearAll leave both values as they are.
C31_SyncMetaOnlyByCycle ==
    [][(syncStatus' # syncStatus \/ lastSyncTime' # lastSyncTime) =>
          \E t \in Tasks :
             \/ SetSyncing(t)
             \/ SetIdleEmpty(t)
             \/ SetLastSyncTime(t)
             \/ SetIdle(t)
             \/ Catch(t)]_vars

(* ------------------- every await settles, failures included ----------- *)
(* The promise an invocation of triggerSync is suspended at eventually    *)
(* resolves or rejects: a database operation ends, and the sync request   *)
(* returns or fails.                                                      *)

\* the await task t is suspended at resolves or rejects
AwaitSettles(t) ==
    \/ CycleStep(t)
    \/ \E conflicts \in SUBSET ClientIdsOf(pendingMeals[t]) :
          \E extra \in SUBSET ServerAccept(serverStore, mealsToSync(pendingMeals[t]),
                                           conflicts) :
             ServerSync(t, conflicts, extra)
    \/ GetStatusFail(t)
    \/ StorageFail(t)
    \/ ImportFail(t)
    \/ SyncFail(t)
    \/ SyncLost(t)
    \/ Catch(t)
    \/ CatchFail(t)

SpecSettles == Init /\ [][Next]_vars /\ \A t \in Tasks : WF_vars(AwaitSettles(t))

\* the invocation has written 'syncing' (line 434) and no later await has settled
\* into the end of the try block or into the catch block
SyncingWritten(t) ==
    pc[t] \in {"getPending", "setIdleEmpty", "getLast", "callSync", "awaitResponse",
               "markRead", "markWrite", "merge", "setLast", "setIdle"}

\* C32: every cycle that has written 'syncing' ends with 'idle' or 'error': it
\* leaves the try block only by writing 'idle' or by going to the catch block, the
\* catch block writes 'error', and the invocation does get there (it returns, or
\* goes on to cleanupExpired after 'idle'); an 'offline' event, a later trigger,
\* start() and stop() leave a running invocation where it is, with its locals.
C32_CycleEndsIdleOrError ==
    /\ [][\A t \in Tasks :
            (SyncingWritten(t) /\ ~SyncingWritten(t)' /\ pc'[t] # "catch") =>
                syncStatus' = "idle"]_vars
    /\ [][\A t \in Tasks : Catch(t) => syncStatus' = "error"]_vars
    /\ [][(OfflineEvent \/ OnlineEvent \/ DirectTrigger \/ TimerTick \/ Start \/ Stop) =>
            \A t \in Tasks : InCycle(t) =>
                /\ pc'[t] = pc[t]
                /\ pendingMeals'[t] = pendingMeals[t]
                /\ response'[t] = response[t]
                /\ idx'[t] = idx[t]]_vars
    /\ \A t \in Tasks : SyncingWritten(t) ~> (pc[t] \in {"idle", "cleanupQuery"})

\* C33: no resurrection: no step creates a local record under a clientId this
\* device handed out earlier and whose record is no longer in the store (it was
\* deleted locally); in particular the application of a response, markSynced and
\* mergeFromServer, does not insert a record for a pushed clientId whose record has
\* been deleted since the push.
C33_NoResurrection ==
    /\ [][\A i \in DOMAIN meals' \ DOMAIN meals :
            ~(/\ meals'[i].clientId \in CreatedClientIds
              /\ LocalIdsOf(meals, meals'[i].clientId) = {})]_vars
    /\ [][\A t \in Tasks : (MarkSyncedWrite(t) \/ MergeFromServer(t)) =>
            \A k \in 1..Len(pendingMeals[t]) :
               LocalIdsOf(meals, pendingMeals[t][k].clientId) = {} =>
                  LocalIdsOf(meals', pendingMeals[t][k].clientId) = {}]_vars

\* C34: the persisted syncStatus is 'syncing' exactly while a cycle is in flight:
\* when no invocation is inside a cycle (also after a restart of the process that
\* interrupted one) getSyncStatus answers 'idle' or 'error', and while an invocation
\* that has written 'syncing' is on its way to the end of the try block the status
\* is 'syncing'.
C34_SyncingIffInFlight ==
    /\ (\A t \in Tasks : ~InCycle(t)) => getSyncStatus \in {"idle", "error"}
    /\ (\E t \in Tasks : SyncingWritten(t)) => syncStatus = "syncing"

\* C35: in every reachable state, whatever sequence of add, update, delete,
\* markSynced, mergeFromServer, cleanupExpired and sync cycles (overlapping or not)
\* led to it, and also when a server_meals list names a client_id more than once,
\* no two local records share a clientId.
C35_ClientIdUnique ==
    \A i, j \in DOMAIN meals : meals[i].clientId = meals[j].clientId => i = j

\* the pcs of a cycle from the sync request on: the request, the application of
\* the response, the write of lastSyncTime and cleanupExpired
PastRequest == {"callSync", "awaitResponse", "markRead", "markWrite", "merge", "setLast",
                "setIdle", "cleanupQuery", "cleanupDelete"}

\* C36: a cycle that finds no PENDING record goes straight to the write of 'idle'
\* and returns: it makes no network call, merges nothing, leaves lastSyncTime and
\* the store as they are and does not run cleanupExpired (a failing write of 'idle'
\* takes it to the catch block instead); so every cycle that calls the server, and
\* every step that brings a record of another device into the store, belongs to a
\* cycle with at least one PENDING record in its batch.
C36_EmptyCycleIsLocal ==
    /\ [](\A t \in Tasks : pc[t] \in PastRequest => Len(pendingMeals[t]) > 0)
    /\ [][/\ \A t \in Tasks :
               /\ (GetPending(t) /\ \A i \in DOMAIN meals : meals[i].syncStatus # "PENDING") =>
                      pc'[t] = "setIdleEmpty"
               /\ (pc[t] = "setIdleEmpty" /\ pc'[t] # "setIdleEmpty") =>
                      /\ pc'[t] \in {"idle", "catch"}
                      /\ pc'[t] = "idle" => syncStatus' = "idle"
                      /\ UNCHANGED <<meals, lastSyncTime, serverStore, response>>
          /\ (/\ meals' # meals
              /\ LocalIdsOf(meals, ForeignClientId) = {}
              /\ LocalIdsOf(meals', ForeignClientId) # {}) =>
                 \E t \in Tasks : MergeFromServer(t) /\ Len(pendingMeals[t]) > 0]_vars

\* C36 witness: another device's record is on the server; a cycle that found
\* nothing PENDING has ended: the status is 'idle', lastSyncTime was never written,
\* and the record of the other device is not in the store
C36_Witness ==
    /\ \E s \in serverStore : s.client_id = ForeignClientId
    /\ \A t \in Tasks : pc[t] = "idle"
    /\ syncStatus = "idle"
    /\ lastSyncTime = 0
    /\ LocalIdsOf(meals, ForeignClientId) = {}

\* a store without the timestamps of its records
IgnoringTimestamps(store) == [i \in DOMAIN store |-> [store[i] EXCEPT !.updatedAt = 0]]

\* the store that a step has just applied serverMeals to is left as it is, but for
\* the timestamps, by mergeFromServer(serverMeals) applied once more, at any time
MergeAgainChangesNothing(serverMeals) ==
    \A t \in Times :
       LET again == mergeFromServer([meals |-> meals', nextId |-> nextId'], serverMeals, t)
       IN /\ IgnoringTimestamps(again.meals) = IgnoringTimestamps(meals')
          /\ again.nextId = nextId'

\* C37: mergeFromServer is idempotent: after mergeFromServer has applied a
\* server_meals list (called directly or by a cycle, on any store the program
\* reaches, with a list that may name a client_id twice), applying the same list
\* again leaves the same records with the same fields, serverId and syncStatus.
C37_MergeIdempotent ==
    /\ [][\A serverMeals \in CallServerMealLists :
            MergeFromServerCall(serverMeals) => MergeAgainChangesNothing(serverMeals)]_vars
    /\ [][\A t \in Tasks :
            MergeFromServer(t) => MergeAgainChangesNothing(response[t].server_meals)]_vars

\* C37 witness: a direct mergeFromServer of a list of two entries has overwritten
\* the record this device created and inserted the record of another device; the
\* same list applied again gives the same two records
C37_Witness ==
    /\ serverStore = {}
    /\ Cardinality(DOMAIN meals) = 2
    /\ LocalIdsOf(meals, ForeignClientId) # {}
    /\ \E serverMeals \in CallServerMealLists :
          /\ Len(serverMeals) = 2
          /\ WireClientIds(serverMeals) = {generateClientId(1), ForeignClientId}
          /\ \A i \in DOMAIN meals :
                /\ meals[i].syncStatus = "SYNCED"
                /\ meals[i].val = LastEntryFor(serverMeals, meals[i].clientId).val
                /\ meals[i].serverId = LastEntryFor(serverMeals, meals[i].clientId).id
          /\ IgnoringTimestamps(
                mergeFromServer([meals |-> meals, nextId |-> nextId], serverMeals, now).meals)
                = IgnoringTimestamps(meals)

\* the invocations of triggerSync a step starts: the task slots that were free and
\* now await getSyncStatus
StartedBy == {t \in Tasks : pc[t] # "getStatus" /\ pc'[t] = "getStatus"}

\* C38: after any sequence of start() and stop() calls at most one interval timer
\* is set, the one syncInterval holds; each start() calls triggerSync once, at once
\* (a no-op when offline); stop() leaves no timer, so the timer starts nothing after
\* it, while the 'online' listener still calls triggerSync once.
C38_OneTimer ==
    /\ [](/\ Cardinality(timers) <= 1
          /\ syncInterval = 0 => timers = {}
          /\ syncInterval # 0 => timers = {syncInterval})
    /\ [][Start => /\ syncInterval' # 0
                   /\ isOnline => Cardinality(StartedBy) = 1
                   /\ ~isOnline => pc' = pc]_vars
    /\ [][Stop => (timers' = {} /\ syncInterval' = 0 /\ pc' = pc)]_vars
    /\ [][TimerTick => (syncInterval # 0 /\ timers = {syncInterval})]_vars
    /\ [][OnlineEvent => Cardinality(StartedBy) = 1]_vars

\* C38 witness: start() has been called while an earlier trigger was still
\* awaiting its first read: two invocations are running, and one timer is set
C38_Witness ==
    /\ events = 2
    /\ syncInterval # 0
    /\ timers = {syncInterval}
    /\ \A t \in Tasks : pc[t] = "getStatus"

(* ------------------------- api.ts: ApiClient -------------------------- *)
(* Every call of ApiClient.request is a task; one action is the code that *)
(* runs when the promise it awaits settles, up to its next await.  The    *)
(* promise of a call of refreshAccessToken is named after the request     *)
(* that made the call.  When that promise settles, the continuations of   *)
(* all the requests that await it are queued one after the other as       *)
(* microtasks and run before any other task (a response, a click), so     *)
(* they are part of the step in which the promise settles.  The server    *)
(* answers 401 whenever it likes (a token expires at any time).  The      *)
(* domain of requests is the calls of request made so far, and the domain *)
(* of refreshCalls the requests that have called refreshAccessToken.      *)

\* the calls of /auth/refresh that are in flight
RefreshInFlight == {p \in DOMAIN refreshCalls : refreshCalls[p] = "pending"}

\* the requests suspended at line 117 on the promise p
Waiters(p) == {r \in DOMAIN requests : requests[r].pc = "awaitRefresh" /\ requests[r].awaits = p}

\* lines 101-107: request(endpoint, options, requiresAuth) is called; fetch is awaited
Request(r, requiresAuth) ==
    /\ r \notin DOMAIN requests
    /\ requests' = requests @@ (r :> [pc |-> "fetch", requiresAuth |-> requiresAuth,
                                       retries |-> 0, awaits |-> 0])
    /\ UNCHANGED <<offlineVars, apiClient, refreshCalls, tokens, logoutEvents>>

\* lines 140-146: the response is ok
FetchOk(r) ==
    /\ r \in DOMAIN requests
    /\ requests[r].pc = "fetch"
    /\ requests' = [requests EXCEPT ![r].pc = "ok"]
    /\ UNCHANGED <<offlineVars, apiClient, refreshCalls, tokens, logoutEvents>>

\* lines 104, 140-142: fetch rejects, or the response is not ok and either is not a
\* 401 or answers a request that needs no authentication: request throws
FetchError(r) ==
    /\ r \in DOMAIN requests
    /\ requests[r].pc = "fetch"
    /\ requests' = [requests EXCEPT ![r].pc = "error"]
    /\ UNCHANGED <<offlineVars, apiClient, refreshCalls, tokens, logoutEvents>>

\* a request that calls refreshAccessToken on every 401
Fetch401AlwaysRefreshes(r) ==
    /\ r \in DOMAIN requests
    /\ requests[r].pc = "fetch"
    /\ requests[r].requiresAuth
    /\ tokens
    /\ apiClient' = [isRefreshing |-> TRUE, refreshPromise |-> r]
    /\ refreshCalls' = refreshCalls @@ (r :> "pending")
    /\ requests' = [requests EXCEPT ![r].pc = "awaitRefresh", ![r].awaits = r]
    /\ UNCHANGED <<offlineVars, tokens, logoutEvents>>

\* lines 110-117: the response is a 401 and the request needs authentication.  If no
\* refresh is under way refreshAccessToken is called: with a refresh token it awaits
\* its fetch of /auth/refresh (lines 73-81); without one it returns false at line 74
\* and lines 118-136 follow in the next microtask
Fetch401(r) ==
    /\ r \in DOMAIN requests
    /\ requests[r].pc = "fetch"
    /\ requests[r].requiresAuth
    /\ IF apiClient.isRefreshing
       THEN /\ requests' = [requests EXCEPT ![r].pc = "awaitRefresh",
                                            ![r].awaits = apiClient.refreshPromise]
            /\ UNCHANGED <<apiClient, refreshCalls, logoutEvents>>
       ELSE IF tokens
            THEN /\ apiClient' = [isRefreshing |-> TRUE, refreshPromise |-> r]
                 /\ refreshCalls' = refreshCalls @@ (r :> "pending")
                 /\ requests' = [requests EXCEPT ![r].pc = "awaitRefresh", ![r].awaits = r]
                 /\ UNCHANGED logoutEvents
            ELSE /\ apiClient' = [isRefreshing |-> FALSE, refreshPromise |-> 0]
                 /\ refreshCalls' = refreshCalls @@ (r :> "false")
                 /\ requests' = [requests EXCEPT ![r].pc = "loggedOut"]
                 /\ logoutEvents' = logoutEvents + 1
    /\ UNCHANGED <<offlineVars, tokens>>

\* lines 83-93 and 117-137: the fetch of /auth/refresh settles.  ok: setTokens, the
\* promise resolves to true and every request that awaits it resets the flags and
\* sends its retry; else clearTokens, the promise resolves to false and every
\* request that awaits it resets the flags, dispatches 'auth:logout' and throws
RefreshSettles(p, ok) ==
    /\ p \in DOMAIN refreshCalls
    /\ refreshCalls[p] = "pending"
    /\ refreshCalls' = [refreshCalls EXCEPT ![p] = IF ok THEN "true" ELSE "false"]
    /\ tokens' = ok
    /\ requests' = [r \in DOMAIN requests |->
                      IF r \notin Waiters(p) THEN requests[r]
                      ELSE IF ok
                           THEN [requests[r] EXCEPT !.pc = "retry", !.retries = @ + 1,
                                                    !.awaits = 0]
                           ELSE [requests[r] EXCEPT !.pc = "loggedOut", !.awaits = 0]]
    /\ apiClient' = IF Waiters(p) # {}
                    THEN [isRefreshing |-> FALSE, refreshPromise |-> 0]
                    ELSE apiClient
    /\ logoutEvents' = IF ok THEN logoutEvents ELSE logoutEvents + Cardinality(Waiters(p))
    /\ UNCHANGED offlineVars

\* lines 129-132: the retry is answered ok
RetryOk(r) ==
    /\ r \in DOMAIN requests
    /\ requests[r].pc = "retry"
    /\ requests' = [requests EXCEPT ![r].pc = "ok"]
    /\ UNCHANGED <<offlineVars, apiClient, refreshCalls, tokens, logoutEvents>>

\* lines 124-131: the retry fails or is answered with an error, a 401 included:
\* request throws
RetryError(r) ==
    /\ r \in DOMAIN requests
    /\ requests[r].pc = "retry"
    /\ requests' = [requests EXCEPT ![r].pc = "error"]
    /\ UNCHANGED <<offlineVars, apiClient, refreshCalls, tokens, logoutEvents>>

\* the user logs in or registers: the view stores the tokens with TokenManager.setTokens
Login ==
    /\ ~tokens
    /\ tokens' = TRUE
    /\ UNCHANGED <<offlineVars, apiClient, requests, refreshCalls, logoutEvents>>

\* the user logs out: the settings view calls TokenManager.clearTokens
Logout ==
    /\ tokens
    /\ tokens' = FALSE
    /\ UNCHANGED <<offlineVars, apiClient, requests, refreshCalls, logoutEvents>>

NextApi ==
    \/ \E r \in Requests, requiresAuth \in BOOLEAN : Request(r, requiresAuth)
    \/ \E r \in Requests : FetchOk(r)
    \/ \E r \in Requests : FetchError(r)
    \/ \E r \in Requests : Fetch401(r)
    \/ \E p \in Requests, ok \in BOOLEAN : RefreshSettles(p, ok)
    \/ \E r \in Requests : RetryOk(r)
    \/ \E r \in Requests : RetryError(r)
    \/ Login
    \/ Logout

SpecApi == Init /\ [][NextApi]_vars

\* C39: token refresh is single-flight: at most one call of /auth/refresh is in
\* flight at any time; a request that receives a 401 while one is in flight makes
\* no call of its own and awaits that one, as does every request that is waiting;
\* a request sends at most one retry; and when the refresh fails the tokens are
\* cleared and every request that awaited it dispatches 'auth:logout' and throws
\* without a retry.
C39_RefreshSingleFlight ==
    /\ [](Cardinality(RefreshInFlight) <= 1)
    /\ [](\A r \in DOMAIN requests : requests[r].pc = "awaitRefresh" =>
             /\ apiClient.isRefreshing
             /\ requests[r].awaits = apiClient.refreshPromise
             /\ RefreshInFlight = {requests[r].awaits})
    /\ [][\A r \in DOMAIN requests : (Fetch401(r) /\ RefreshInFlight # {}) =>
             /\ refreshCalls' = refreshCalls
             /\ requests'[r].pc = "awaitRefresh"
             /\ requests'[r].awaits \in RefreshInFlight]_vars
    /\ [](\A r \in DOMAIN requests : requests[r].retries <= 1)
    /\ [][\A r \in DOMAIN requests : requests[r].retries # 0 => requests'[r].retries = requests[r].retries]_vars
    /\ [][\A p \in DOMAIN refreshCalls : RefreshSettles(p, FALSE) =>
             /\ ~tokens'
             /\ logoutEvents' = logoutEvents + Cardinality(Waiters(p))
             /\ \A r \in Waiters(p) :
                   /\ requests'[r].pc = "loggedOut"
                   /\ requests'[r].retries = 0]_vars
    /\ [][logoutEvents' # logoutEvents =>
             /\ ~tokens'
             /\ \A r \in DOMAIN requests : requests'[r].retries = requests[r].retries]_vars
    /\ [][\A r \in DOMAIN requests : requests[r].pc = "loggedOut" => requests'[r] = requests[r]]_vars

\* C39 witness: three requests were answered 401 while one call of /auth/refresh
\* was pending; it failed: the tokens are gone, all three have dispatched
\* 'auth:logout' and none has sent a retry
C39_Witness ==
    /\ DOMAIN requests = Requests
    /\ \A r \in Requests : requests[r].pc = "loggedOut" /\ requests[r].retries = 0
    /\ Cardinality(DOMAIN refreshCalls) = 1
    /\ \A p \in DOMAIN refreshCalls : refreshCalls[p] = "false"
    /\ logoutEvents = NumRequests
    /\ ~tokens

====
